---- MODULE Spec2Model ----
(***************************************************************************)
(* Model of the associative selection engine of haddock:                   *)
(*   - the selection store (stores/selectionStore.ts),                     *)
(*   - the propagation hook (hooks/useSelectionPropagation.ts),            *)
(*   - StateCalculator (engine/StateCalculator.ts),                        *)
(*   - RelationshipDetector and AssociativeEngine                          *)
(*     (engine/RelationshipDetector.ts),                                   *)
(*   - QueryBuilder (engine/QueryBuilder.ts),                              *)
(*   - the table data hooks (hooks/useTableData.ts,                        *)
(*     hooks/useCompositeTableData.ts).                                    *)
(* Each component has its own specification over a shared variable tuple;  *)
(* the variables a specification does not use keep their idle value.       *)
(***************************************************************************)
EXTENDS Integers, Sequences, FiniteSets, TLC

VARIABLES
  \* selectionStore.ts
  selections, fieldStates, history, historyIndex,
  \* useSelectionPropagation.ts
  requestIdRef, debounceRef, runs, hookLog,
  \* StateCalculator.ts: one calculateFieldStates call
  calc,
  \* RelationshipDetector.ts: findPath / findConnectedTables call
  graph,
  \* RelationshipDetector.ts: detectRelationships call
  detect,
  \* QueryBuilder.ts: one compilation call
  build,
  \* AssociativeEngine.getSelectionStats call
  stats,
  \* useTableData.ts / useCompositeTableData.ts: one mounted hook
  tableData

storeVars == <<selections, fieldStates, history, historyIndex>>
hookVars  == <<requestIdRef, debounceRef, runs, hookLog>>
vars == <<selections, fieldStates, history, historyIndex,
          requestIdRef, debounceRef, runs, hookLog, calc, graph, detect,
          build, stats, tableData>>

(***************************************************************************)
(* Bounds                                                                  *)
(***************************************************************************)
MaxHistory == 2
MaxRequests == 2
MaxClicks == 2
MaxSelections == 2
MaxRelationships == 4
MaxTables == 2
MaxColumns == 2

\* program constants
DefaultLimit == 1000
FieldValuesLimit == 10000

\* JavaScript null / undefined / "no entry"
Null == "<null>"

Idle == [pc |-> "idle"]

(***************************************************************************)
(* Schema and value domain used by the store, the hook and StateCalculator *)
(***************************************************************************)
SchemaTables ==
  << [name |-> "Orders",    columns |-> <<"Status", "ID">>],
     [name |-> "Customers", columns |-> <<"Name">>] >>

Range(s) == { s[i] : i \in DOMAIN s }

\* A field is a (table, column) pair of the schema
SchemaFields ==
  UNION { { [table |-> SchemaTables[i].name, column |-> SchemaTables[i].columns[j]] :
              j \in DOMAIN SchemaTables[i].columns } : i \in DOMAIN SchemaTables }

\* DuckDBValue: the scalar values a cell can hold (Map / Set keys)
DuckDBValue == {"a", "b"}

SelectionState == {"selected", "possible", "alternative", "excluded"}

CellIdentifier ==
  { [table |-> f.table, column |-> f.column, value |-> v] :
      f \in SchemaFields, v \in DuckDBValue }

(***************************************************************************)
(* selectionStore.ts                                                       *)
(***************************************************************************)
createFieldKey(table, column) == table \o "." \o column

\* Array.prototype.findIndex, 1-based; 0 when no element matches (-1 in JS)
findIndex(seq, table, column) ==
  LET hits == { i \in DOMAIN seq : seq[i].table = table /\ seq[i].column = column }
  IN IF hits = {} THEN 0 ELSE CHOOSE i \in hits : \A j \in hits : i <= j

removeAt(seq, idx) ==
  [ i \in 1..(Len(seq) - 1) |-> IF i < idx THEN seq[i] ELSE seq[i + 1] ]

\* the value set of the clicked field after the click (lines 58-75)
toggledValues(existing, value, multiSelect) ==
  IF multiSelect
  THEN IF value \in existing THEN existing \ {value} ELSE existing \cup {value}
  ELSE IF Cardinality(existing) = 1 /\ value \in existing THEN {} ELSE {value}

selectValueSelections_KeepEmpty(sels, cell, multiSelect) ==
  LET existingIndex == findIndex(sels, cell.table, cell.column)
  IN IF existingIndex > 0
     THEN [sels EXCEPT ![existingIndex].values =
             toggledValues(sels[existingIndex].values, cell.value, multiSelect)]
     ELSE Append(sels, [table |-> cell.table, column |-> cell.column,
                        values |-> {cell.value}])

\* newSelections of selectValue (lines 50-91)
selectValueSelections(sels, cell, multiSelect) ==
  LET existingIndex == findIndex(sels, cell.table, cell.column)
  IN IF existingIndex > 0
     THEN LET newValues == toggledValues(sels[existingIndex].values, cell.value, multiSelect)
          IN IF newValues = {}
             THEN removeAt(sels, existingIndex)
             ELSE [sels EXCEPT ![existingIndex].values = newValues]
     ELSE Append(sels, [table |-> cell.table, column |-> cell.column,
                        values |-> {cell.value}])

\* the empty Map
EmptyMap == [k \in {} |-> Null]

selectValue(cell, multiSelect) ==
  LET newSelections == selectValueSelections(selections, cell, multiSelect)
      newHistory == Append(SubSeq(history, 1, historyIndex + 1),
                           [selections |-> newSelections])
  IN /\ Len(newHistory) <= MaxHistory
     /\ selections' = newSelections
     /\ fieldStates' = EmptyMap
     /\ history' = newHistory
     /\ historyIndex' = Len(newHistory) - 1

\* clearSelection(table?, column?): Null stands for an omitted argument
clearSelection(table, column) ==
  LET newSelections ==
        IF table # Null /\ column # Null
        THEN SelectSeq(selections, LAMBDA s : ~(s.table = table /\ s.column = column))
        ELSE IF table # Null
        THEN SelectSeq(selections, LAMBDA s : s.table # table)
        ELSE <<>>
  IN /\ selections' = newSelections
     /\ fieldStates' = EmptyMap
     /\ UNCHANGED <<history, historyIndex>>

clearAllSelections ==
  /\ selections' = <<>>
  /\ fieldStates' = EmptyMap
  /\ UNCHANGED <<history, historyIndex>>

\* the Map built by setFieldStates from a FieldState[] (later entries win)
RECURSIVE fieldStateMap(_)
fieldStateMap(states) ==
  IF states = <<>> THEN EmptyMap
  ELSE LET last == states[Len(states)]
           rest == fieldStateMap(SubSeq(states, 1, Len(states) - 1))
           key  == createFieldKey(last.table, last.column)
       IN [ k \in DOMAIN rest \cup {key} |-> IF k = key THEN last ELSE rest[k] ]

setFieldStates(states) ==
  /\ fieldStates' = fieldStateMap(states)
  /\ UNCHANGED <<selections, history, historyIndex>>

\* selections.find(...) is the entry at findIndex, undefined when that is 0;
\* fieldStates.get(key) is undefined when key is no key of the Map
getValueState(table, column, value) ==
  LET key == createFieldKey(table, column)
      sel == findIndex(selections, table, column)
  IN IF sel > 0 /\ value \in selections[sel].values THEN "selected"
     ELSE IF key \in DOMAIN fieldStates /\ value \in DOMAIN fieldStates[key].valueStates
          THEN fieldStates[key].valueStates[value]
     ELSE IF Len(selections) = 0 THEN "possible" ELSE "excluded"

\* index positions are 0-based as in the code; history[i + 1] is history[i] there
goBack ==
  /\ historyIndex > 0
  /\ historyIndex' = historyIndex - 1
  /\ selections' = history[(historyIndex - 1) + 1].selections
  /\ fieldStates' = EmptyMap
  /\ UNCHANGED history

goForward ==
  /\ historyIndex < Len(history) - 1
  /\ historyIndex' = historyIndex + 1
  /\ selections' = history[(historyIndex + 1) + 1].selections
  /\ fieldStates' = EmptyMap
  /\ UNCHANGED history

canGoBack == historyIndex > 0
canGoForward == historyIndex < Len(history) - 1

(***************************************************************************)
(* useSelectionPropagation.ts                                              *)
(***************************************************************************)
\* addField (lines 26-33): append unless the key is already present
RECURSIVE addFields(_, _)
addFields(acc, fields) ==
  IF fields = <<>> THEN acc
  ELSE LET f == Head(fields)
           present == \E i \in DOMAIN acc :
                        createFieldKey(acc[i].table, acc[i].column)
                          = createFieldKey(f.table, f.column)
       IN addFields(IF present THEN acc ELSE Append(acc, f), Tail(fields))

tableColumns(tableName) ==
  LET t == CHOOSE i \in DOMAIN SchemaTables : SchemaTables[i].name = tableName
  IN [ j \in DOMAIN SchemaTables[t].columns |->
         [table |-> tableName, column |-> SchemaTables[t].columns[j]] ]

\* targetFields of the effect (lines 24-48) for the views the user can be in:
\* view.mode is viewMode, view.activeTable / view.columnSelections what it shows
targetFieldsOf(view) ==
  IF view.mode = "table" /\ view.activeTable # Null
  THEN addFields(<<>>, tableColumns(view.activeTable))
  ELSE IF view.mode = "canvas"
  THEN addFields(<<>>, view.columnSelections)
  ELSE <<>>

Views ==
  { [mode |-> "table", activeTable |-> Null, columnSelections |-> <<>>],
    [mode |-> "table", activeTable |-> "Customers", columnSelections |-> <<>>],
    [mode |-> "canvas", activeTable |-> Null,
     columnSelections |-> << [table |-> "Orders", column |-> "Status"],
                             [table |-> "Customers", column |-> "Name"],
                             [table |-> "Orders", column |-> "Status"] >>] }

\* fieldsByTable (lines 61-68): table names in first-occurrence order
RECURSIVE tablesOf(_)
tablesOf(fields) ==
  IF fields = <<>> THEN <<>>
  ELSE LET rest == tablesOf(SubSeq(fields, 1, Len(fields) - 1))
           t == fields[Len(fields)].table
       IN IF t \in Range(rest) THEN rest ELSE Append(rest, t)

columnsOf(fields, tableName) ==
  SelectSeq(fields, LAMBDA f : f.table = tableName)

\* valueStates of one column (lines 89-115). rows: the filtered rows of the
\* table, allValuesOf: what getFieldValues returned, by field key
hookValueStates(sels, field, rows, allValuesOf) ==
  LET sel == findIndex(sels, field.table, field.column)
      allValues == allValuesOf[createFieldKey(field.table, field.column)]
  IN IF sel > 0
     THEN [ v \in sels[sel].values \cup allValues |->
              IF v \in sels[sel].values THEN "selected" ELSE "alternative" ]
     ELSE [ v \in { r[field.column] : r \in rows } |-> "possible" ]

\* the FieldState[] a run builds (lines 60-123), in push order
hookFieldStates(sels, targetFields, rowsOf, allValuesOf) ==
  LET tbls == tablesOf(targetFields)
      perTable(t) ==
        LET cols == columnsOf(targetFields, t)
        IN [ j \in DOMAIN cols |->
               [table |-> t, column |-> cols[j].column,
                valueStates |-> hookValueStates(sels, cols[j], rowsOf[t], allValuesOf)] ]
      RECURSIVE cat(_)
      cat(i) == IF i = 0 THEN <<>> ELSE cat(i - 1) \o perTable(tbls[i])
  IN cat(Len(tbls))

isStale_Never(requestId) == FALSE

\* the stale-response test of lines 126 and 131
isStale(requestId) == requestId # requestIdRef

\* useEffect body (lines 22-56): tag the request, re-arm the debounce timer
Effect(view) ==
  /\ requestIdRef < MaxRequests
  /\ requestIdRef' = requestIdRef + 1
  /\ debounceRef' = << [requestId |-> requestIdRef + 1,
                        selections |-> selections,
                        targetFields |-> targetFieldsOf(view)] >>
  /\ UNCHANGED <<storeVars, runs, hookLog>>

\* rows a table query can return, as far as the run reads them: each row
\* maps the requested columns of the table to values
RowsOf(targetFields, tableName) ==
  LET cols == { f.column : f \in { g \in Range(targetFields) : g.table = tableName } }
  IN SUBSET [cols -> DuckDBValue]

\* the debounce timer fires (line 56): the async callback starts. With no
\* target field it has nothing to await and finishes in the same step.
TimerFires ==
  /\ debounceRef # <<>>
  /\ LET t == debounceRef[1]
     IN /\ debounceRef' = <<>>
        /\ IF t.targetFields = <<>>
           THEN IF isStale(t.requestId)
                THEN UNCHANGED <<storeVars, runs>> /\
                     hookLog' = [hookLog EXCEPT !.started = t.requestId,
                                                !.discarded = @ + 1]
                ELSE /\ setFieldStates(<<>>)
                     /\ runs' = runs
                     /\ hookLog' = [hookLog EXCEPT !.started = t.requestId,
                                      !.writer = t.requestId, !.at = t.requestId,
                                      !.from = t.selections]
           ELSE /\ runs' = runs \cup {t}
                /\ hookLog' = [hookLog EXCEPT !.started = t.requestId]
                /\ UNCHANGED storeVars
  /\ UNCHANGED requestIdRef

\* the queries of a run resolve (lines 70-129): rowsOf[t] is what
\* getFilteredTableData returned for table t, allValuesOf[k] what getFieldValues
\* returned for the selected field with key k
RunResolves(run) ==
  /\ run \in runs
  /\ runs' = runs \ {run}
  /\ IF isStale(run.requestId)
     THEN /\ UNCHANGED storeVars
          /\ hookLog' = [hookLog EXCEPT !.discarded = @ + 1]
     ELSE LET tbls == Range(tablesOf(run.targetFields))
              keys == { createFieldKey(f.table, f.column) :
                          f \in { g \in Range(run.targetFields) :
                                    findIndex(run.selections, g.table, g.column) > 0 } }
          IN \E rowsOf \in [tbls -> UNION { RowsOf(run.targetFields, t) : t \in tbls }],
                allValuesOf \in [keys -> SUBSET DuckDBValue] :
               /\ \A t \in tbls : rowsOf[t] \in RowsOf(run.targetFields, t)
               /\ setFieldStates(hookFieldStates(run.selections, run.targetFields,
                                                 rowsOf, allValuesOf))
               /\ hookLog' = [hookLog EXCEPT !.writer = run.requestId,
                                             !.at = hookLog.started,
                                             !.from = run.selections]
  /\ UNCHANGED <<requestIdRef, debounceRef>>

\* a query of a run rejects (lines 130-135): nothing is written
RunFails(run) ==
  /\ run \in runs
  /\ runs' = runs \ {run}
  /\ UNCHANGED <<storeVars, requestIdRef, debounceRef, hookLog>>

(***************************************************************************)
(* Specification of the selection store with the propagation hook          *)
(***************************************************************************)
\* history of the hook's runs: the last request whose callback started, the
\* request that wrote field states last and the newest started one at that
\* moment, the selections snapshot that write was computed from, and the
\* number of discarded results
HookLogInit ==
  [started |-> 0, writer |-> 0, at |-> 0, discarded |-> 0, from |-> <<>>]

Init ==
  /\ selections = <<>>
  /\ fieldStates = EmptyMap
  /\ history = <<>>
  /\ historyIndex = -1
  /\ requestIdRef = 0
  /\ debounceRef = <<>>
  /\ runs = {}
  /\ hookLog = HookLogInit
  /\ build = Idle
  /\ stats = Idle
  /\ tableData = Idle
  /\ calc = Idle
  /\ graph = Idle
  /\ detect = Idle

engineVars == <<calc, graph, detect, build, stats, tableData>>

\* ---- the store alone, driven by the user and by setFieldStates callers ----
ValueStatesInputs ==
  { [v \in {"a"} |-> "possible"],
    [v \in DuckDBValue |-> IF v = "a" THEN "excluded" ELSE "possible"] }

\* FieldState[] arguments of setFieldStates
FieldStatesInputs ==
  { <<>> } \cup
  { << [table |-> f.table, column |-> f.column, valueStates |-> vs] >> :
      f \in SchemaFields, vs \in ValueStatesInputs } \cup
  { << [table |-> "Orders", column |-> "ID", valueStates |-> vs],
       [table |-> "Customers", column |-> "Name", valueStates |-> vs],
       [table |-> "Orders", column |-> "ID",
        valueStates |-> [v \in {"b"} |-> "alternative"]] >> :
      vs \in ValueStatesInputs }

SelectValue ==
  \E cell \in CellIdentifier, multiSelect \in BOOLEAN :
    selectValue(cell, multiSelect) /\ UNCHANGED <<hookVars, engineVars>>

ClearSelection ==
  \E table \in {Null} \cup { f.table : f \in SchemaFields },
     column \in {Null} \cup { f.column : f \in SchemaFields } :
    clearSelection(table, column) /\ UNCHANGED <<hookVars, engineVars>>

ClearAllSelections == clearAllSelections /\ UNCHANGED <<hookVars, engineVars>>

SetFieldStates ==
  \E states \in FieldStatesInputs :
    setFieldStates(states) /\ UNCHANGED <<hookVars, engineVars>>

GoBack == goBack /\ UNCHANGED <<hookVars, engineVars>>

GoForward == goForward /\ UNCHANGED <<hookVars, engineVars>>

NextStore ==
  \/ SelectValue
  \/ ClearSelection
  \/ ClearAllSelections
  \/ SetFieldStates
  \/ GoBack
  \/ GoForward

SpecStore == Init /\ [][NextStore]_vars

\* ---- the store together with the propagation hook ----
\* the cells the user clicks while propagation runs are in flight
HookCells ==
  { [table |-> "Customers", column |-> "Name", value |-> "a"] }

UserSelects ==
  \E cell \in HookCells, multiSelect \in BOOLEAN :
    /\ Len(history) < MaxClicks
    /\ selectValue(cell, multiSelect)
    /\ UNCHANGED <<hookVars, engineVars>>

UserClears == clearAllSelections /\ UNCHANGED <<hookVars, engineVars>>

UserGoesBack == goBack /\ UNCHANGED <<hookVars, engineVars>>

RunEffect == \E view \in Views : Effect(view) /\ UNCHANGED engineVars

Timer == TimerFires /\ UNCHANGED engineVars

Resolve == \E run \in runs : RunResolves(run) /\ UNCHANGED engineVars

Reject == \E run \in runs : RunFails(run) /\ UNCHANGED engineVars

Next ==
  \/ UserSelects
  \/ UserClears
  \/ UserGoesBack
  \/ RunEffect
  \/ Timer
  \/ Resolve
  \/ Reject

Spec == Init /\ [][Next]_vars

(***************************************************************************)
(* StateCalculator.ts                                                      *)
(***************************************************************************)
\* Map.prototype.set
mapSet(m, k, v) == [ x \in DOMAIN m \cup {k} |-> IF x = k THEN v ELSE m[x] ]

\* lines 88-90: every selected value is marked 'selected'
markSelected(values) == [ v \in values |-> "selected" ]

markAlternatives_Overwrite(valueStates, rows) ==
  [ v \in DOMAIN valueStates \cup rows |->
      IF v \in rows THEN "alternative" ELSE valueStates[v] ]

\* lines 96-101: a returned value without a state yet becomes 'alternative'
markAlternatives(valueStates, rows) ==
  [ v \in DOMAIN valueStates \cup rows |->
      IF v \in DOMAIN valueStates THEN valueStates[v] ELSE "alternative" ]

classifyValues_OnlyPossible(valueStates, possibleValues, rows) ==
  [ v \in DOMAIN valueStates \cup (rows \cap possibleValues) |-> "possible" ]

classifyValues_FromPossible(valueStates, possibleValues, rows) ==
  [ v \in DOMAIN valueStates \cup rows \cup possibleValues |->
      IF v \in possibleValues THEN "possible" ELSE "excluded" ]

\* lines 121-128: every returned value is 'possible' or 'excluded'
classifyValues(valueStates, possibleValues, rows) ==
  [ v \in DOMAIN valueStates \cup rows |->
      IF v \in rows
      THEN IF v \in possibleValues THEN "possible" ELSE "excluded"
      ELSE valueStates[v] ]

\* targetFieldKeys (lines 31-42): keys of selected fields and of targetFields
targetFieldKeys(sels, targetFields) ==
  { createFieldKey(sels[i].table, sels[i].column) : i \in DOMAIN sels } \cup
  { createFieldKey(targetFields.fields[i].table, targetFields.fields[i].column) :
      i \in DOMAIN targetFields.fields }

\* fieldsToCalculate (lines 44-54), in table and column order.
\* targetFields.given is FALSE when the argument is omitted.
fieldsToCalculate(tables, sels, targetFields) ==
  LET shouldCalculateAll == ~targetFields.given \/ Len(targetFields.fields) = 0
      keys == targetFieldKeys(sels, targetFields)
      ofTable(t) ==
        LET all == [ j \in DOMAIN t.columns |->
                       [table |-> t.name, column |-> t.columns[j]] ]
        IN SelectSeq(all, LAMBDA f :
                       shouldCalculateAll \/ createFieldKey(f.table, f.column) \in keys)
      RECURSIVE cat(_)
      cat(i) == IF i = 0 THEN <<>> ELSE cat(i - 1) \o ofTable(tables[i])
  IN cat(Len(tables))

\* calculateFieldState up to its first await (lines 79-94 and 102-112)
startFieldState(sels, f) ==
  LET sel == findIndex(sels, f.table, f.column)
  IN IF sel > 0
     THEN [pc |-> "awaitAllValues", selected |-> TRUE,
           valueStates |-> markSelected(sels[sel].values),
           possibleValues |-> {}, allValues |-> {}, failed |-> FALSE]
     ELSE [pc |-> "awaitPossible", selected |-> FALSE,
           valueStates |-> EmptyMap,
           possibleValues |-> {}, allValues |-> {}, failed |-> FALSE]

\* Promise.all (lines 56-66): rejected by the first rejection, fulfilled with
\* every FieldState, in order, once all calls have returned
promiseAll(pc, fields, procs) ==
  IF pc # "pending" THEN pc
  ELSE IF \E i \in DOMAIN procs : procs[i].pc = "threw" THEN "rejected"
  ELSE IF \A i \in DOMAIN procs : procs[i].pc = "returned" THEN "resolved"
  ELSE "pending"

fieldStateResults(fields, procs) ==
  [ i \in DOMAIN fields |->
      [table |-> fields[i].table, column |-> fields[i].column,
       valueStates |-> procs[i].valueStates] ]

settle(c, procs) ==
  LET pc == promiseAll(c.pc, c.fields, procs)
  IN [c EXCEPT !.procs = procs, !.pc = pc,
               !.result = IF pc = "resolved" /\ c.pc = "pending"
                          THEN fieldStateResults(c.fields, procs) ELSE @]

noSelections_Never(sels) == FALSE

\* selections.length === 0 (StateCalculator.ts line 27)
noSelections(sels) == Len(sels) = 0

\* AssociativeEngine.propagateSelection (RelationshipDetector.ts lines
\* 241-260): returns [] without selections, calls calculateFieldStates
\* without an allow-list otherwise
PropagateSelection ==
  /\ calc.pc = "propagating"
  /\ calc' = [calc EXCEPT !.pc = IF Len(calc.selections) = 0
                                 THEN "resolved" ELSE "called"]
  /\ UNCHANGED <<storeVars, hookVars, graph, detect, build, stats, tableData>>

\* calculateFieldStates, the synchronous part (lines 26-66)
CalculateFieldStates ==
  /\ calc.pc = "called"
  /\ IF noSelections(calc.selections)
     THEN calc' = [calc EXCEPT !.pc = "resolved"]
     ELSE LET fields == fieldsToCalculate(SchemaTables, calc.selections, calc.targetFields)
              procs == [ i \in DOMAIN fields |-> startFieldState(calc.selections, fields[i]) ]
          IN calc' = settle([calc EXCEPT !.pc = "pending", !.fields = fields,
                                         !.queries = Len(fields)], procs)
  /\ UNCHANGED <<storeVars, hookVars, graph, detect, build, stats, tableData>>

\* executeQuery resolves for field i with the distinct values `rows`
\* (lines 94-101, 112-115 and 119-128)
QueryResolves(i, rows) ==
  /\ calc.pc \in {"pending", "rejected"}
  /\ i \in DOMAIN calc.procs
  /\ LET p == calc.procs[i]
     IN /\ p.pc \in {"awaitAllValues", "awaitPossible"}
        /\ calc' =
             IF p.pc = "awaitPossible"
             THEN [calc EXCEPT !.procs[i].pc = "awaitAllValues",
                               !.procs[i].possibleValues = rows,
                               !.queries = @ + 1]
             ELSE settle(calc,
                    [calc.procs EXCEPT ![i] =
                       [p EXCEPT !.pc = "returned", !.allValues = rows,
                                 !.valueStates =
                                    IF p.selected
                                    THEN markAlternatives(p.valueStates, rows)
                                    ELSE classifyValues(p.valueStates, p.possibleValues, rows)]])
  /\ UNCHANGED <<storeVars, hookVars, graph, detect, build, stats, tableData>>

\* executeQuery rejects for field i: caught for a field without a selection
\* (lines 129-135), not caught for a field with one (line 94)
QueryRejects(i) ==
  /\ calc.pc \in {"pending", "rejected"}
  /\ i \in DOMAIN calc.procs
  /\ LET p == calc.procs[i]
     IN /\ p.pc \in {"awaitAllValues", "awaitPossible"}
        /\ calc' = settle(calc,
                     [calc.procs EXCEPT ![i] =
                        [p EXCEPT !.pc = IF p.selected THEN "threw" ELSE "returned",
                                  !.failed = TRUE]])
  /\ UNCHANGED <<storeVars, hookVars, graph, detect, build, stats, tableData>>

\* inputs of the call: well-formed selection lists of at most MaxSelections
\* fields, and the optional allow-list
RECURSIVE SelectionLists(_)
SelectionLists(n) ==
  IF n = 0 THEN { <<>> }
  ELSE LET shorter == SelectionLists(n - 1)
       IN shorter \cup
          { Append(l, [table |-> f.table, column |-> f.column, values |-> vs]) :
              l \in { x \in shorter : Len(x) = n - 1 },
              f \in SchemaFields, vs \in (SUBSET DuckDBValue) \ {{}} }

WellFormed(sels) ==
  \A i, j \in DOMAIN sels :
    (sels[i].table = sels[j].table /\ sels[i].column = sels[j].column) => i = j

TargetFieldsInputs ==
  { [given |-> FALSE, fields |-> <<>>],
    [given |-> TRUE, fields |-> <<>>],
    [given |-> TRUE, fields |-> << [table |-> "Orders", column |-> "ID"] >>],
    [given |-> TRUE, fields |-> << [table |-> "Customers", column |-> "Name"],
                                   [table |-> "Orders", column |-> "Status"],
                                   [table |-> "Customers", column |-> "Name"] >>] }

InitCalc ==
  /\ selections = <<>>
  /\ fieldStates = EmptyMap
  /\ history = <<>>
  /\ historyIndex = -1
  /\ requestIdRef = 0
  /\ debounceRef = <<>>
  /\ runs = {}
  /\ hookLog = HookLogInit
  /\ build = Idle
  /\ stats = Idle
  /\ tableData = Idle
  /\ graph = Idle
  /\ detect = Idle
  /\ \E sels \in { l \in SelectionLists(MaxSelections) : WellFormed(l) },
        tf \in TargetFieldsInputs :
       \/ calc = [pc |-> "called", entry |-> "calculateFieldStates",
                  selections |-> sels, targetFields |-> tf,
                  fields |-> <<>>, procs |-> <<>>, result |-> <<>>, queries |-> 0]
       \/ /\ ~tf.given
          /\ calc = [pc |-> "propagating", entry |-> "propagateSelection",
                     selections |-> sels, targetFields |-> tf,
                     fields |-> <<>>, procs |-> <<>>, result |-> <<>>, queries |-> 0]

Resolves ==
  \E i \in DOMAIN calc.procs, rows \in SUBSET DuckDBValue : QueryResolves(i, rows)

Rejects == \E i \in DOMAIN calc.procs : QueryRejects(i)

NextCalc ==
  \/ PropagateSelection
  \/ CalculateFieldStates
  \/ Resolves
  \/ Rejects

SpecCalc == InitCalc /\ [][NextCalc]_vars

(***************************************************************************)
(* RelationshipDetector.ts: graph queries                                  *)
(***************************************************************************)
\* JavaScript truthiness of a table name or null (line 213)
truthy(name) == name # Null /\ name # ""

\* the for loop of findConnectedTables (lines 170-177) from relationship k on
RECURSIVE pushConnected(_, _, _, _, _)
pushConnected(current, visited, queue, relationships, k) ==
  IF k > Len(relationships) THEN queue
  ELSE LET rel == relationships[k]
           q1 == IF rel.fromTable = current /\ rel.toTable \notin visited
                 THEN Append(queue, rel.toTable) ELSE queue
           q2 == IF rel.toTable = current /\ rel.fromTable \notin visited
                 THEN Append(q1, rel.fromTable) ELSE q1
       IN pushConnected(current, visited, q2, relationships, k + 1)

\* the while loop of findConnectedTables (lines 164-178)
RECURSIVE connectedLoop(_, _, _)
connectedLoop(visited, queue, relationships) ==
  IF queue = <<>> THEN visited
  ELSE LET current == Head(queue)
       IN IF current \in visited
          THEN connectedLoop(visited, Tail(queue), relationships)
          ELSE connectedLoop(visited \cup {current},
                 pushConnected(current, visited \cup {current}, Tail(queue),
                               relationships, 1),
                 relationships)

findConnectedTables(startTable, relationships) ==
  connectedLoop({}, <<startTable>>, relationships)

\* a path result: found is FALSE for null
NoPath == [found |-> FALSE, path |-> <<>>]

nextTableOf_FromOnly(rel, table, visited) ==
  IF rel.fromTable = table /\ rel.toTable \notin visited THEN rel.toTable
  ELSE Null

nextTableOf_AnyEdge(rel, table, visited) ==
  IF rel.toTable \notin visited THEN rel.toTable
  ELSE IF rel.fromTable \notin visited THEN rel.fromTable
  ELSE Null

\* nextTable of lines 205-211
nextTableOf(rel, table, visited) ==
  IF rel.fromTable = table /\ rel.toTable \notin visited THEN rel.toTable
  ELSE IF rel.toTable = table /\ rel.fromTable \notin visited THEN rel.fromTable
  ELSE Null

\* the for loop of findPath (lines 204-220) from relationship k on: either the
\* path returned at line 216 or the queue after the loop
RECURSIVE expandPath(_, _, _, _, _, _, _)
expandPath(table, path, toTable, visited, queue, relationships, k) ==
  IF k > Len(relationships) THEN [found |-> FALSE, path |-> <<>>, queue |-> queue]
  ELSE LET rel == relationships[k]
           nextTable == nextTableOf(rel, table, visited)
       IN IF truthy(nextTable)
          THEN IF nextTable = toTable
               THEN [found |-> TRUE, path |-> Append(path, rel), queue |-> queue]
               ELSE expandPath(table, path, toTable, visited,
                               Append(queue, [table |-> nextTable,
                                              path |-> Append(path, rel)]),
                               relationships, k + 1)
          ELSE expandPath(table, path, toTable, visited, queue, relationships, k + 1)

RECURSIVE pathLoop_Stack(_, _, _, _)
pathLoop_Stack(toTable, visited, queue, relationships) ==
  IF queue = <<>> THEN NoPath
  ELSE LET item == queue[Len(queue)]
           rest == SubSeq(queue, 1, Len(queue) - 1)
       IN IF item.table \in visited
          THEN pathLoop_Stack(toTable, visited, rest, relationships)
          ELSE LET e == expandPath(item.table, item.path, toTable,
                                   visited \cup {item.table}, rest,
                                   relationships, 1)
               IN IF e.found THEN [found |-> TRUE, path |-> e.path]
                  ELSE pathLoop_Stack(toTable, visited \cup {item.table}, e.queue,
                                      relationships)

\* the while loop of findPath (lines 198-221)
RECURSIVE pathLoop(_, _, _, _)
pathLoop(toTable, visited, queue, relationships) ==
  IF queue = <<>> THEN NoPath
  ELSE LET item == Head(queue)
       IN IF item.table \in visited
          THEN pathLoop(toTable, visited, Tail(queue), relationships)
          ELSE LET e == expandPath(item.table, item.path, toTable,
                                   visited \cup {item.table}, Tail(queue),
                                   relationships, 1)
               IN IF e.found THEN [found |-> TRUE, path |-> e.path]
                  ELSE pathLoop(toTable, visited \cup {item.table}, e.queue,
                                relationships)

findPath(fromTable, toTable, relationships) ==
  IF fromTable = toTable THEN [found |-> TRUE, path |-> <<>>]
  ELSE pathLoop(toTable, {}, << [table |-> fromTable, path |-> <<>>] >>, relationships)

\* ---- graph queries on bounded relationship lists ----
GraphTables == {"Orders", "Customers", "OrderItems", "Products"}

\* candidate relationships: one for every pair of distinct tables, one pair in
\* both directions, and one relationship of a table to itself
GraphRelationships ==
  { [fromTable |-> "Orders", fromColumn |-> "CustomerID",
     toTable |-> "Customers", toColumn |-> "ID"],
    [fromTable |-> "Customers", fromColumn |-> "LastOrderID",
     toTable |-> "Orders", toColumn |-> "ID"],
    [fromTable |-> "OrderItems", fromColumn |-> "OrderID",
     toTable |-> "Orders", toColumn |-> "ID"],
    [fromTable |-> "OrderItems", fromColumn |-> "CustomerID",
     toTable |-> "Customers", toColumn |-> "ID"],
    [fromTable |-> "OrderItems", fromColumn |-> "ProductID",
     toTable |-> "Products", toColumn |-> "ID"],
    [fromTable |-> "Customers", fromColumn |-> "ProductID",
     toTable |-> "Products", toColumn |-> "ID"],
    [fromTable |-> "Products", fromColumn |-> "OrderID",
     toTable |-> "Orders", toColumn |-> "ID"],
    [fromTable |-> "Orders", fromColumn |-> "ParentID",
     toTable |-> "Orders", toColumn |-> "ID"] }

RECURSIVE SeqsUpTo(_, _)
SeqsUpTo(S, n) ==
  IF n = 0 THEN { <<>> }
  ELSE LET shorter == SeqsUpTo(S, n - 1)
       IN shorter \cup { Append(l, x) : l \in { y \in shorter : Len(y) = n - 1 }, x \in S }

InitGraph ==
  /\ selections = <<>>
  /\ fieldStates = EmptyMap
  /\ history = <<>>
  /\ historyIndex = -1
  /\ requestIdRef = 0
  /\ debounceRef = <<>>
  /\ runs = {}
  /\ hookLog = HookLogInit
  /\ build = Idle
  /\ stats = Idle
  /\ tableData = Idle
  /\ calc = Idle
  /\ detect = Idle
  /\ \E x \in GraphTables, y \in GraphTables,
        rels \in SeqsUpTo(GraphRelationships, MaxRelationships) :
       graph = [pc |-> "called", fromTable |-> x, toTable |-> y,
                relationships |-> rels, path |-> NoPath, connected |-> {}]

\* findPath(fromTable, toTable, relationships) and
\* findConnectedTables(fromTable, relationships) return
GraphQueries ==
  /\ graph.pc = "called"
  /\ graph' = [graph EXCEPT
                 !.pc = "returned",
                 !.path = findPath(graph.fromTable, graph.toTable, graph.relationships),
                 !.connected = findConnectedTables(graph.fromTable, graph.relationships)]
  /\ UNCHANGED <<storeVars, hookVars, calc, detect, build, stats, tableData>>

NextGraph == GraphQueries

SpecGraph == InitGraph /\ [][NextGraph]_vars

(***************************************************************************)
(* RelationshipDetector.ts: detectRelationships                            *)
(***************************************************************************)
\* String.prototype.toLowerCase on the letters of identifiers
lowerChar(c) ==
  CASE c = "A" -> "a" [] c = "B" -> "b" [] c = "C" -> "c" [] c = "D" -> "d"
    [] c = "E" -> "e" [] c = "F" -> "f" [] c = "G" -> "g" [] c = "H" -> "h"
    [] c = "I" -> "i" [] c = "J" -> "j" [] c = "K" -> "k" [] c = "L" -> "l"
    [] c = "M" -> "m" [] c = "N" -> "n" [] c = "O" -> "o" [] c = "P" -> "p"
    [] c = "Q" -> "q" [] c = "R" -> "r" [] c = "S" -> "s" [] c = "T" -> "t"
    [] c = "U" -> "u" [] c = "V" -> "v" [] c = "W" -> "w" [] c = "X" -> "x"
    [] c = "Y" -> "y" [] c = "Z" -> "z" [] OTHER -> c

RECURSIVE toLowerCase(_)
toLowerCase(str) ==
  IF Len(str) = 0 THEN ""
  ELSE lowerChar(SubSeq(str, 1, 1)) \o toLowerCase(SubSeq(str, 2, Len(str)))

\* String.prototype.endsWith
endsWith(str, suffix) ==
  /\ Len(str) >= Len(suffix)
  /\ SubSeq(str, Len(str) - Len(suffix) + 1, Len(str)) = suffix

\* str.replace(/_?id$/i, '') on a lower-case string
stripIdSuffix(str) ==
  IF ~endsWith(str, "id") THEN str
  ELSE LET stem == SubSeq(str, 1, Len(str) - 2)
       IN IF endsWith(stem, "_") THEN SubSeq(stem, 1, Len(stem) - 1) ELSE stem

\* str.replace(/_/g, '')
RECURSIVE stripUnderscores(_)
stripUnderscores(str) ==
  IF Len(str) = 0 THEN ""
  ELSE LET c == SubSeq(str, 1, 1)
           rest == stripUnderscores(SubSeq(str, 2, Len(str)))
       IN IF c = "_" THEN rest ELSE c \o rest

\* new Map(tables.map(t => [t.name.toLowerCase(), t])) as its entries in order:
\* a repeated key keeps its position and takes the later table (line 13)
RECURSIVE tableMapOf(_)
tableMapOf(tables) ==
  IF tables = <<>> THEN <<>>
  ELSE LET rest == tableMapOf(SubSeq(tables, 1, Len(tables) - 1))
           t == tables[Len(tables)]
           key == toLowerCase(t.name)
       IN IF \E i \in DOMAIN rest : rest[i].key = key
          THEN [ i \in DOMAIN rest |->
                   IF rest[i].key = key THEN [key |-> key, tbl |-> t] ELSE rest[i] ]
          ELSE Append(rest, [key |-> key, tbl |-> t])

\* tbl.columns.find(...) of lines 71-73, as an index; 0 when there is none
idColumnIndex(tbl) ==
  LET hits == { j \in DOMAIN tbl.columns :
                  \/ toLowerCase(tbl.columns[j]) = "id"
                  \/ toLowerCase(tbl.columns[j]) = toLowerCase(tbl.name) \o "id" }
  IN IF hits = {} THEN 0 ELSE CHOOSE j \in hits : \A k \in hits : j <= k

newRelationship(fromTable, fromColumn, toTable, toColumn) ==
  [id |-> fromTable \o "." \o fromColumn \o "->" \o toTable \o "." \o toColumn,
   fromTable |-> fromTable, fromColumn |-> fromColumn,
   toTable |-> toTable, toColumn |-> toColumn]

\* no relationship detected (null)
NoRelationship == <<>>

\* pattern 1 (lines 55-87): the loop over tableMap from entry k on; the result
\* is <<relationship>> or NoRelationship
RECURSIVE fkSuffixPattern(_, _, _, _, _)
fkSuffixPattern(tableName, column, potentialTableName, tableMap, k) ==
  IF k > Len(tableMap) THEN NoRelationship
  ELSE LET tbl == tableMap[k].tbl
           normalizedTblName == stripUnderscores(tableMap[k].key)
           idx == idColumnIndex(tbl)
       IN IF /\ \/ normalizedTblName = potentialTableName
                \/ normalizedTblName = potentialTableName \o "s"
                \/ normalizedTblName \o "s" = potentialTableName
             /\ idx > 0
             /\ tbl.name # tableName
          THEN << newRelationship(tableName, column, tbl.name, tbl.columns[idx]) >>
          ELSE fkSuffixPattern(tableName, column, potentialTableName, tableMap, k + 1)

\* pattern 2 (lines 90-116): the first column of another table, in table and
\* column order, that names this table's id
idReflectionPattern(tableName, column, tables) ==
  LET expectedFkName == toLowerCase(tableName) \o "id"
      expectedFkNameUnderscore == toLowerCase(tableName) \o "_id"
      matches(otherCol) ==
        LET otherColLower == toLowerCase(otherCol)
        IN \/ otherColLower = expectedFkName
           \/ otherColLower = expectedFkNameUnderscore
           \/ stripUnderscores(otherColLower) = expectedFkName
      hits == { <<i, j>> \in (DOMAIN tables) \X (1..MaxColumns) :
                  /\ j \in DOMAIN tables[i].columns
                  /\ tables[i].name # tableName
                  /\ matches(tables[i].columns[j]) }
  IN IF hits = {} THEN NoRelationship
     ELSE LET h == CHOOSE p \in hits :
                     \A q \in hits : p[1] < q[1] \/ (p[1] = q[1] /\ p[2] <= q[2])
          IN << newRelationship(tables[h[1]].name, tables[h[1]].columns[h[2]],
                                tableName, column) >>

\* detectColumnRelationship (lines 46-119)
detectColumnRelationship(tableName, column, tables, tableMap) ==
  LET colNameLower == toLowerCase(column)
      first == IF endsWith(colNameLower, "id") /\ colNameLower # "id"
               THEN fkSuffixPattern(tableName, column,
                                    stripUnderscores(stripIdSuffix(colNameLower)),
                                    tableMap, 1)
               ELSE NoRelationship
  IN IF first # NoRelationship THEN first
     ELSE IF colNameLower = "id"
     THEN idReflectionPattern(tableName, column, tables)
     ELSE NoRelationship

sameEndpoints(r, d) ==
  /\ r.fromTable = d.fromTable /\ r.fromColumn = d.fromColumn
  /\ r.toTable = d.toTable /\ r.toColumn = d.toColumn

reversedEndpoints(r, d) ==
  /\ r.fromTable = d.toTable /\ r.fromColumn = d.toColumn
  /\ r.toTable = d.fromTable /\ r.toColumn = d.fromColumn

alreadyDetected_SameDirection(relationships, detected) ==
  \E i \in DOMAIN relationships : sameEndpoints(relationships[i], detected)

\* the duplicate test of lines 25-35
alreadyDetected(relationships, detected) ==
  \E i \in DOMAIN relationships :
    \/ sameEndpoints(relationships[i], detected)
    \/ reversedEndpoints(relationships[i], detected)

\* the loops of detectRelationships (lines 15-41) from column j of table i on
RECURSIVE detectLoop(_, _, _, _, _)
detectLoop(tables, tableMap, i, j, relationships) ==
  IF i > Len(tables) THEN relationships
  ELSE IF j > Len(tables[i].columns)
  THEN detectLoop(tables, tableMap, i + 1, 1, relationships)
  ELSE LET detected == detectColumnRelationship(tables[i].name, tables[i].columns[j],
                                                tables, tableMap)
       IN detectLoop(tables, tableMap, i, j + 1,
            IF detected # NoRelationship /\ ~alreadyDetected(relationships, detected[1])
            THEN Append(relationships, detected[1])
            ELSE relationships)

detectRelationships(tables) == detectLoop(tables, tableMapOf(tables), 1, 1, <<>>)

\* ---- detection on bounded schemas ----
DetectTableNames == {"Orders", "Order", "Customers"}
DetectColumnNames == {"ID", "OrderID", "OrdersID"}

NoRepetition(seq) == \A i, j \in DOMAIN seq : seq[i] = seq[j] => i = j

\* column lists of a table: at most MaxColumns columns, no name twice
DetectColumnLists ==
  { l \in SeqsUpTo(DetectColumnNames, MaxColumns) : NoRepetition(l) }

InitDetect ==
  /\ selections = <<>>
  /\ fieldStates = EmptyMap
  /\ history = <<>>
  /\ historyIndex = -1
  /\ requestIdRef = 0
  /\ debounceRef = <<>>
  /\ runs = {}
  /\ hookLog = HookLogInit
  /\ build = Idle
  /\ stats = Idle
  /\ tableData = Idle
  /\ calc = Idle
  /\ graph = Idle
  \* the schema: at most MaxTables tables with pairwise different names
  /\ \E n \in 0..MaxTables :
       \E names \in { l \in [1..n -> DetectTableNames] : NoRepetition(l) },
          columns \in [1..n -> DetectColumnLists] :
         detect = [pc |-> "called",
                   tables |-> [ i \in 1..n |->
                                  [name |-> names[i], columns |-> columns[i]] ],
                   relationships |-> <<>>]

DetectRelationships ==
  /\ detect.pc = "called"
  /\ detect' = [detect EXCEPT !.pc = "returned",
                              !.relationships = detectRelationships(detect.tables)]
  /\ UNCHANGED <<storeVars, hookVars, calc, graph, build, stats, tableData>>

NextDetect == DetectRelationships

SpecDetect == InitDetect /\ [][NextDetect]_vars

(***************************************************************************)
(* RelationshipDetector.ts: confidence of a detected relationship          *)
(***************************************************************************)
\* String.prototype.includes for a search string of any length
typeIncludes(str, fragment) ==
  \E i \in 1..Len(str) :
    /\ i + Len(fragment) - 1 <= Len(str)
    /\ SubSeq(str, i, i + Len(fragment) - 1) = fragment

\* lines 138-139
numericTypes == {"integer", "bigint", "smallint", "int", "int4", "int8"}
stringTypes == {"varchar", "text", "char", "string"}

areTypesCompatible_ExactOnly(type1, type2) == toLowerCase(type1) = toLowerCase(type2)

areTypesCompatible_FamilyOnly(type1, type2) ==
  LET t1 == toLowerCase(type1)
      t2 == toLowerCase(type2)
  IN \/ (\E t \in numericTypes : typeIncludes(t1, t))
          /\ (\E t \in numericTypes : typeIncludes(t2, t))
     \/ (\E t \in stringTypes : typeIncludes(t1, t))
          /\ (\E t \in stringTypes : typeIncludes(t2, t))

\* areTypesCompatible (lines 137-152)
areTypesCompatible(type1, type2) ==
  LET t1 == toLowerCase(type1)
      t2 == toLowerCase(type2)
  IN IF t1 = t2 THEN TRUE
     ELSE IF (\E t \in numericTypes : typeIncludes(t1, t))
               /\ (\E t \in numericTypes : typeIncludes(t2, t)) THEN TRUE
     ELSE IF (\E t \in stringTypes : typeIncludes(t1, t))
               /\ (\E t \in stringTypes : typeIncludes(t2, t)) THEN TRUE
     ELSE FALSE

\* calculateConfidence (lines 121-135)
calculateConfidence(fromCol, toCol) ==
  LET typesMatch == areTypesCompatible(fromCol.type, toCol.type)
      toColIsId == toLowerCase(toCol.name) = "id"
  IN IF typesMatch /\ toColIsId THEN "high"
     ELSE IF typesMatch THEN "medium"
     ELSE "low"

\* inputs: column types of both families and of none, in both spellings, and
\* target columns named id and not
ColumnTypes == {"INTEGER", "bigint", "TINYINT", "VARCHAR", "text", "DOUBLE", "DATE", "date"}
FromColumnNames == {"CustomerID", "customer_id"}
ToColumnNames == {"ID", "id", "CustomersID"}

InitConfidence ==
  /\ selections = <<>>
  /\ fieldStates = EmptyMap
  /\ history = <<>>
  /\ historyIndex = -1
  /\ requestIdRef = 0
  /\ debounceRef = <<>>
  /\ runs = {}
  /\ hookLog = HookLogInit
  /\ build = Idle
  /\ stats = Idle
  /\ tableData = Idle
  /\ calc = Idle
  /\ graph = Idle
  /\ \E fromName \in FromColumnNames, toName \in ToColumnNames,
        fromType \in ColumnTypes, toType \in ColumnTypes :
       detect = [pc |-> "scoring",
                 fromCol |-> [name |-> fromName, type |-> fromType],
                 toCol |-> [name |-> toName, type |-> toType],
                 confidence |-> Null]

CalculateConfidence ==
  /\ detect.pc = "scoring"
  /\ detect' = [detect EXCEPT !.pc = "scored",
                              !.confidence = calculateConfidence(detect.fromCol, detect.toCol)]
  /\ UNCHANGED <<storeVars, hookVars, calc, graph, build, stats, tableData>>

NextConfidence == CalculateConfidence

SpecConfidence == InitConfidence /\ [][NextConfidence]_vars

(***************************************************************************)
(* QueryBuilder.ts                                                         *)
(***************************************************************************)
\* String.prototype.includes for a one-character search string
RECURSIVE includes(_, _)
includes(str, ch) ==
  IF Len(str) = 0 THEN FALSE
  ELSE SubSeq(str, 1, 1) = ch \/ includes(SubSeq(str, 2, Len(str)), ch)

\* String.prototype.indexOf from position i (1-based); 0 when there is none
RECURSIVE indexOf(_, _, _)
indexOf(str, ch, i) ==
  IF i > Len(str) THEN 0
  ELSE IF SubSeq(str, i, i) = ch THEN i
  ELSE indexOf(str, ch, i + 1)

\* tableName.split('.', 2) of a name that includes a dot: the first two pieces
splitDot(tableName) ==
  LET i == indexOf(tableName, ".", 1)
      rest == SubSeq(tableName, i + 1, Len(tableName))
      j == indexOf(rest, ".", 1)
  IN << SubSeq(tableName, 1, i - 1),
        IF j = 0 THEN rest ELSE SubSeq(rest, 1, j - 1) >>

toSqlTableRef_Unqualified(tableName) == "loaded_db.\"" \o tableName \o "\""

toSqlTableRef(tableName) ==
  IF includes(tableName, ".")
  THEN LET parts == splitDot(tableName)
       IN "loaded_db.\"" \o parts[1] \o "\".\"" \o parts[2] \o "\""
  ELSE "loaded_db.\"" \o tableName \o "\""

getRelationshipPriority(relationship, preferredTables) ==
  (IF relationship.fromTable \in preferredTables THEN 2 ELSE 0)
  + (IF relationship.toTable \in preferredTables THEN 2 ELSE 0)
  + (IF ~includes(relationship.fromTable, ".") THEN 1 ELSE 0)
  + (IF ~includes(relationship.toTable, ".") THEN 1 ELSE 0)
  + (IF ~includes(relationship.fromTable, "_") THEN 1 ELSE 0)
  + (IF ~includes(relationship.toTable, "_") THEN 1 ELSE 0)

\* [...relationships].sort((a, b) => priority(b) - priority(a)): a stable sort
\* by descending priority, here by insertion of the elements in order
RECURSIVE prioritized(_, _)
prioritized(relationships, preferredTables) ==
  IF relationships = <<>> THEN <<>>
  ELSE LET sorted == prioritized(SubSeq(relationships, 1, Len(relationships) - 1),
                                 preferredTables)
           r == relationships[Len(relationships)]
           p == getRelationshipPriority(r, preferredTables)
           \* r goes after every element whose priority is not lower
           n == Cardinality({ i \in DOMAIN sorted :
                                getRelationshipPriority(sorted[i], preferredTables) >= p })
       IN SubSeq(sorted, 1, n) \o <<r>> \o SubSeq(sorted, n + 1, Len(sorted))

findPreferredPath_DepthFirst(fromTable, toTable, relationships, preferredTables) ==
  IF fromTable = toTable THEN [found |-> TRUE, path |-> <<>>]
  ELSE pathLoop_Stack(toTable, {}, << [table |-> fromTable, path |-> <<>>] >>,
                      prioritized(relationships, preferredTables))

findPreferredPath_Unsorted(fromTable, toTable, relationships, preferredTables) ==
  findPath(fromTable, toTable, relationships)

findPreferredPath(fromTable, toTable, relationships, preferredTables) ==
  findPath(fromTable, toTable, prioritized(relationships, preferredTables))

\* ---- findPreferredPath on bounded relationship lists ----
\* the cycle over four tables, one of them schema-qualified with an
\* underscore in its name, and a chord
PreferredRelationships ==
  { [fromTable |-> "staging.order_items", fromColumn |-> "OrderID",
     toTable |-> "Orders", toColumn |-> "ID"],
    [fromTable |-> "staging.order_items", fromColumn |-> "ProductID",
     toTable |-> "Products", toColumn |-> "ID"],
    [fromTable |-> "Orders", fromColumn |-> "CustomerID",
     toTable |-> "Customers", toColumn |-> "ID"],
    [fromTable |-> "Products", fromColumn |-> "CustomerID",
     toTable |-> "Customers", toColumn |-> "ID"],
    [fromTable |-> "Orders", fromColumn |-> "ProductID",
     toTable |-> "Products", toColumn |-> "ID"] }

PreferredTables == {"Orders", "Customers", "Products", "staging.order_items"}

InitPreferred ==
  /\ selections = <<>>
  /\ fieldStates = EmptyMap
  /\ history = <<>>
  /\ historyIndex = -1
  /\ requestIdRef = 0
  /\ debounceRef = <<>>
  /\ runs = {}
  /\ hookLog = HookLogInit
  /\ build = Idle
  /\ stats = Idle
  /\ tableData = Idle
  /\ calc = Idle
  /\ detect = Idle
  /\ \E x \in PreferredTables, y \in PreferredTables,
        rels \in { l \in SeqsUpTo(PreferredRelationships, MaxRelationships) :
                     \A i, j \in DOMAIN l : l[i] = l[j] => i = j },
        preferred \in SUBSET (PreferredTables \ {"Customers"}) :
       graph = [pc |-> "called", fromTable |-> x, toTable |-> y,
                relationships |-> rels, preferredTables |-> preferred,
                path |-> NoPath, preferred |-> NoPath]

\* findPreferredPath and, on the list as given, findPath return
FindPreferredPath ==
  /\ graph.pc = "called"
  /\ graph' = [graph EXCEPT
                 !.pc = "returned",
                 !.path = findPath(graph.fromTable, graph.toTable, graph.relationships),
                 !.preferred = findPreferredPath(graph.fromTable, graph.toTable,
                                                 graph.relationships,
                                                 graph.preferredTables)]
  /\ UNCHANGED <<storeVars, hookVars, calc, detect, build, stats, tableData>>

NextPreferred == FindPreferredPath

SpecPreferred == InitPreferred /\ [][NextPreferred]_vars

\* selectionsByTable: the selections grouped by table, in the order in which
\* the tables first occur (Map insertion order)
RECURSIVE groupByTable(_)
groupByTable(sels) ==
  IF sels = <<>> THEN <<>>
  ELSE LET rest == groupByTable(SubSeq(sels, 1, Len(sels) - 1))
           sel == sels[Len(sels)]
       IN IF \E i \in DOMAIN rest : rest[i].table = sel.table
          THEN [ i \in DOMAIN rest |->
                   IF rest[i].table = sel.table
                   THEN [rest[i] EXCEPT !.selections = Append(@, sel)]
                   ELSE rest[i] ]
          ELSE Append(rest, [table |-> sel.table, selections |-> <<sel>>])

\* formatValue of a string value (lines 277-279); the values of the model are
\* strings without quote characters
formatValue(value) == "'" \o value \o "'"

\* buildWhereClauseWithAlias / buildWhereClause: one IN condition per
\* selection, in order, on the columns of `alias`
buildWhereClauseWithAlias(tableSelections, alias) ==
  [alias |-> alias,
   conditions |-> [ i \in DOMAIN tableSelections |->
                      [column |-> tableSelections[i].column,
                       values |-> { formatValue(v) : v \in tableSelections[i].values }] ]]

buildWhereClause(tableSelections, tableName) ==
  buildWhereClauseWithAlias(tableSelections, toSqlTableRef(tableName))

startJoins_KeptCounter(baseTable) ==
  [tableAliases |-> [t \in {baseTable} |-> "t"],
   aliasCounter |-> build.instance.aliasCounter,
   joins |-> <<>>,
   joinedTables |-> {baseTable}]

\* the join state of a compilation
startJoins(baseTable) ==
  [tableAliases |-> [t \in {baseTable} |-> "t"],
   aliasCounter |-> 1,
   joins |-> <<>>,
   joinedTables |-> {baseTable}]

\* `t${aliasCounter++}`
nextAliasOf_Reused(js) == "t" \o ToString(Len(js.joins))

nextAliasOf(js) == "t" \o ToString(js.aliasCounter)

alreadyJoined_Never(js, nextTable) == FALSE

\* joinedTables.has(nextTable)
alreadyJoined(js, nextTable) == nextTable \in js.joinedTables

currentAliasOf_Base(js, currentTable) == "t"

\* tableAliases.get(currentTable)
currentAliasOf(js, currentTable) ==
  IF currentTable \in DOMAIN js.tableAliases
  THEN js.tableAliases[currentTable] ELSE "undefined"

\* "Build JOINs along the path": the for loop over the path from edge k on
RECURSIVE joinAlong(_, _, _, _, _)
joinAlong(path, k, currentTable, js, joinKind) ==
  IF k > Len(path) THEN js
  ELSE LET rel == path[k]
           forward == rel.fromTable = currentTable
           nextTable == IF forward THEN rel.toTable ELSE rel.fromTable
       IN IF ~alreadyJoined(js, nextTable)
          THEN LET nextAlias == nextAliasOf(js)
                   currentAlias == currentAliasOf(js, currentTable)
                   joinCol == IF forward THEN rel.fromColumn ELSE rel.toColumn
                   targetCol == IF forward THEN rel.toColumn ELSE rel.fromColumn
                   join == [kind |-> joinKind, table |-> nextTable,
                            ref |-> toSqlTableRef(nextTable), alias |-> nextAlias,
                            onAlias |-> currentAlias, joinCol |-> joinCol,
                            targetCol |-> targetCol]
               IN joinAlong(path, k + 1, nextTable,
                    [tableAliases |-> [ t \in DOMAIN js.tableAliases \cup {nextTable} |->
                                          IF t = nextTable THEN nextAlias
                                          ELSE js.tableAliases[t] ],
                     aliasCounter |-> js.aliasCounter + 1,
                     joins |-> Append(js.joins, join),
                     joinedTables |-> js.joinedTables \cup {nextTable}],
                    joinKind)
          ELSE joinAlong(path, k + 1, nextTable, js, joinKind)

RECURSIVE filterJoins_StopAtUnreachable(_, _, _, _, _, _)
filterJoins_StopAtUnreachable(groups, k, targetTable, relationships, js, whereConditions) ==
  IF k > Len(groups) THEN [js |-> js, whereConditions |-> whereConditions]
  ELSE LET sourceTable == groups[k].table
           tableSelections == groups[k].selections
       IN IF sourceTable = targetTable
          THEN filterJoins_StopAtUnreachable(groups, k + 1, targetTable, relationships,
                 js, Append(whereConditions,
                            buildWhereClauseWithAlias(tableSelections, "t")))
          ELSE LET path == findPreferredPath(targetTable, sourceTable, relationships,
                                             js.joinedTables)
               IN IF ~path.found \/ Len(path.path) = 0
                  THEN [js |-> js, whereConditions |-> <<>>]
                  ELSE LET joined == joinAlong(path.path, 1, targetTable, js, "JOIN")
                       IN filterJoins_StopAtUnreachable(groups, k + 1, targetTable,
                            relationships, joined,
                            Append(whereConditions,
                                   buildWhereClauseWithAlias(tableSelections,
                                     joined.tableAliases[sourceTable])))

\* the loop over selectionsByTable of buildTableQuery (lines 92-138) and of
\* buildPossibleValuesQuery (lines 186-226) from group k on: the join state
\* and the WHERE conditions it leaves
RECURSIVE filterJoins(_, _, _, _, _, _)
filterJoins(groups, k, targetTable, relationships, js, whereConditions) ==
  IF k > Len(groups) THEN [js |-> js, whereConditions |-> whereConditions]
  ELSE LET sourceTable == groups[k].table
           tableSelections == groups[k].selections
       IN IF sourceTable = targetTable
          THEN filterJoins(groups, k + 1, targetTable, relationships, js,
                 Append(whereConditions, buildWhereClauseWithAlias(tableSelections, "t")))
          ELSE LET path == findPreferredPath(targetTable, sourceTable, relationships,
                                             js.joinedTables)
               IN IF ~path.found \/ Len(path.path) = 0
                  THEN filterJoins(groups, k + 1, targetTable, relationships, js,
                                   whereConditions)
                  ELSE LET joined == joinAlong(path.path, 1, targetTable, js, "JOIN")
                           sourceAlias == IF sourceTable \in DOMAIN joined.tableAliases
                                          THEN joined.tableAliases[sourceTable]
                                          ELSE "undefined"
                       IN filterJoins(groups, k + 1, targetTable, relationships, joined,
                            Append(whereConditions,
                                   buildWhereClauseWithAlias(tableSelections, sourceAlias)))

\* no LIMIT clause
NoLimit == [present |-> FALSE, value |-> 0]

\* LIMIT ${limit}
Limit(limit) == [present |-> TRUE, value |-> limit]

\* a SELECT statement: projection is a list of [alias, column, as] (alias ""
\* for an unqualified column, as "" for no AS), baseAlias "" for no alias
Select(distinct, projection, baseTable, baseAlias, joins, whereConditions, limit) ==
  [shape |-> "select", distinct |-> distinct, projection |-> projection,
   table |-> baseTable, from |-> toSqlTableRef(baseTable), baseAlias |-> baseAlias,
   joins |-> joins, where |-> whereConditions, limit |-> limit]

buildTableQuery(targetTable, sels, relationships, limit) ==
  LET selectionsByTable == groupByTable(sels)
      star == << [alias |-> "", column |-> "*", as |-> ""] >>
      tStar == << [alias |-> "t", column |-> "*", as |-> ""] >>
  IN IF Len(sels) = 0
     THEN Select(FALSE, star, targetTable, "", <<>>, <<>>, Limit(limit))
     ELSE IF Len(selectionsByTable) = 1 /\ selectionsByTable[1].table = targetTable
     THEN Select(FALSE, star, targetTable, "", <<>>,
                 << buildWhereClause(selectionsByTable[1].selections, targetTable) >>,
                 Limit(limit))
     ELSE LET r == filterJoins(selectionsByTable, 1, targetTable, relationships,
                               startJoins(targetTable), <<>>)
          IN Select(TRUE, tStar, targetTable, "t", r.js.joins, r.whereConditions,
                    Limit(limit))

relevantSelections_All(sels, targetTable, targetColumn) == sels

\* selections.filter(s => !(s.table === targetTable && s.column === targetColumn))
relevantSelections(sels, targetTable, targetColumn) ==
  SelectSeq(sels, LAMBDA s : ~(s.table = targetTable /\ s.column = targetColumn))

buildPossibleValuesQuery(targetTable, targetColumn, sels, relationships) ==
  LET relevant == relevantSelections(sels, targetTable, targetColumn)
      selectionsByTable == groupByTable(relevant)
  IN IF Len(relevant) = 0
     THEN Select(TRUE, << [alias |-> "", column |-> targetColumn, as |-> ""] >>,
                 targetTable, "", <<>>, <<>>, NoLimit)
     ELSE LET r == filterJoins(selectionsByTable, 1, targetTable, relationships,
                               startJoins(targetTable), <<>>)
          IN Select(TRUE, << [alias |-> "t", column |-> targetColumn, as |-> ""] >>,
                    targetTable, "t", r.js.joins, r.whereConditions, NoLimit)

\* types/canvas.ts: [...new Set(columnSelections.map(cs => cs.table))]
RECURSIVE getTablesFromSelections(_)
getTablesFromSelections(columnSelections) ==
  IF columnSelections = <<>> THEN <<>>
  ELSE LET rest == getTablesFromSelections(SubSeq(columnSelections, 1,
                                                  Len(columnSelections) - 1))
           t == columnSelections[Len(columnSelections)].table
       IN IF \E i \in DOMAIN rest : rest[i] = t THEN rest ELSE Append(rest, t)

\* types/canvas.ts: the table of the first column selection, or null
getPrimaryTable(columnSelections) ==
  IF Len(columnSelections) = 0 THEN Null ELSE columnSelections[1].table

\* 'SELECT 1 WHERE FALSE' with an empty column mapping
EmptyComposite == [query |-> [shape |-> "empty"], columnMapping |-> EmptyMap]

displayJoinKind_Inner == "JOIN"

\* the join keyword of line 372
displayJoinKind == "LEFT JOIN"

filterJoinKind_Left == "LEFT JOIN"

\* the join keyword of line 440
filterJoinKind == "JOIN"

\* "Find JOIN path to all required tables" (lines 344-379) from table k on
RECURSIVE displayJoins(_, _, _, _, _, _)
displayJoins(tables, k, primaryTable, relationships, js, unreachableTables) ==
  IF k > Len(tables) THEN [js |-> js, unreachableTables |-> unreachableTables]
  ELSE LET table == tables[k]
       IN IF table = primaryTable
          THEN displayJoins(tables, k + 1, primaryTable, relationships, js,
                            unreachableTables)
          ELSE LET path == findPreferredPath(primaryTable, table, relationships,
                                             js.joinedTables)
               IN IF ~path.found \/ Len(path.path) = 0
                  THEN displayJoins(tables, k + 1, primaryTable, relationships, js,
                                    unreachableTables \cup {table})
                  ELSE displayJoins(tables, k + 1, primaryTable, relationships,
                         joinAlong(path.path, 1, primaryTable, js, displayJoinKind),
                         unreachableTables)

projectedColumns_PrimaryOnly(columnSelections, tableAliases, unreachableTables) ==
  SelectSeq(columnSelections, LAMBDA cs : cs.table = columnSelections[1].table)

\* the column selections that are projected (lines 386-395), in order
projectedColumns(columnSelections, tableAliases, unreachableTables) ==
  SelectSeq(columnSelections,
            LAMBDA cs : cs.table \notin unreachableTables /\ cs.table \in DOMAIN tableAliases)

\* `${cs.table}.${cs.column}`
outputNameOf(cs) == cs.table \o "." \o cs.column

\* the loop over selectionsByTable of lines 412-451 from group k on
RECURSIVE compositeFilterJoins(_, _, _, _, _, _)
compositeFilterJoins(groups, k, primaryTable, relationships, js, whereConditions) ==
  IF k > Len(groups) THEN [js |-> js, whereConditions |-> whereConditions]
  ELSE LET sourceTable == groups[k].table
           tableSelections == groups[k].selections
       IN IF sourceTable \in DOMAIN js.tableAliases
          THEN compositeFilterJoins(groups, k + 1, primaryTable, relationships, js,
                 Append(whereConditions,
                        buildWhereClauseWithAlias(tableSelections,
                                                  js.tableAliases[sourceTable])))
          ELSE LET path == findPreferredPath(primaryTable, sourceTable, relationships,
                                             js.joinedTables)
               IN IF ~path.found \/ Len(path.path) = 0
                  THEN compositeFilterJoins(groups, k + 1, primaryTable, relationships,
                                            js, whereConditions)
                  ELSE LET joined == joinAlong(path.path, 1, primaryTable, js,
                                               filterJoinKind)
                           filterAlias == IF sourceTable \in DOMAIN joined.tableAliases
                                          THEN joined.tableAliases[sourceTable]
                                          ELSE "undefined"
                       IN compositeFilterJoins(groups, k + 1, primaryTable,
                            relationships, joined,
                            Append(whereConditions,
                                   buildWhereClauseWithAlias(tableSelections, filterAlias)))

\* the single-table branch (lines 312-332): the table query, wrapped
singleTableComposite(columnSelections, primaryTable, sels, relationships, limit) ==
  [query |-> [shape |-> "wrap",
              projection |-> [ i \in DOMAIN columnSelections |->
                                 [alias |-> "", column |-> columnSelections[i].column,
                                  as |-> ""] ],
              inner |-> buildTableQuery(primaryTable, sels, relationships, limit),
              baseAlias |-> "t"],
   columnMapping |-> [ name \in { columnSelections[i].column :
                                    i \in DOMAIN columnSelections } |->
                         [table |-> primaryTable, column |-> name] ]]

buildCompositeTableQuery(columnSelections, sels, relationships, limit) ==
  LET tables == getTablesFromSelections(columnSelections)
      primaryTable == getPrimaryTable(columnSelections)
  IN IF Len(columnSelections) = 0 THEN EmptyComposite
     ELSE IF ~truthy(primaryTable) THEN EmptyComposite
     ELSE IF Len(tables) = 1
     THEN singleTableComposite(columnSelections, primaryTable, sels, relationships, limit)
     ELSE LET d == displayJoins(tables, 1, primaryTable, relationships,
                                startJoins(primaryTable), {})
              projected == projectedColumns(columnSelections, d.js.tableAliases,
                                            d.unreachableTables)
              selectParts == [ i \in DOMAIN projected |->
                                 [alias |-> d.js.tableAliases[projected[i].table],
                                  column |-> projected[i].column,
                                  as |-> outputNameOf(projected[i])] ]
              columnMapping == [ name \in { outputNameOf(projected[i]) :
                                              i \in DOMAIN projected } |->
                                   LET cs == CHOOSE c \in Range(projected) :
                                               outputNameOf(c) = name
                                   IN [table |-> cs.table, column |-> cs.column] ]
          IN IF Len(selectParts) = 0 THEN EmptyComposite
             ELSE LET f == compositeFilterJoins(groupByTable(sels), 1, primaryTable,
                                                relationships, d.js, <<>>)
                  IN [query |-> Select(TRUE, selectParts, primaryTable, "t",
                                       f.js.joins, f.whereConditions, Limit(limit)),
                      columnMapping |-> columnMapping]

\* AssociativeEngine.getFieldValues (RelationshipDetector.ts line 300): the
\* table reference is written in place, not through toSqlTableRef
getFieldValuesQuery(tableName, columnName) ==
  [shape |-> "select", distinct |-> TRUE,
   projection |-> << [alias |-> "", column |-> columnName, as |-> ""] >>,
   table |-> tableName, from |-> "loaded_db.\"" \o tableName \o "\"",
   baseAlias |-> "", joins |-> <<>>, where |-> <<>>, limit |-> Limit(FieldValuesLimit)]

\* allValuesQuery of StateCalculator.calculateFieldState (lines 93 and 118)
allValuesQuery(tableName, columnName) ==
  Select(TRUE, << [alias |-> "", column |-> columnName, as |-> ""] >>,
         tableName, "", <<>>, <<>>, NoLimit)

\* ---- compilation on bounded inputs ----
QueryTables == {"Orders", "Customers", "Products", "staging.order_items"}

\* a cycle over the four tables: two tables are connected by two chains
QueryRelationships ==
  { [fromTable |-> "staging.order_items", fromColumn |-> "OrderID",
     toTable |-> "Orders", toColumn |-> "ID"],
    [fromTable |-> "staging.order_items", fromColumn |-> "ProductID",
     toTable |-> "Products", toColumn |-> "ID"],
    [fromTable |-> "Orders", fromColumn |-> "CustomerID",
     toTable |-> "Customers", toColumn |-> "ID"],
    [fromTable |-> "Products", fromColumn |-> "CustomerID",
     toTable |-> "Customers", toColumn |-> "ID"] }

QuerySelections ==
  { [table |-> "Orders", column |-> "Status", values |-> {"a"}],
    [table |-> "Orders", column |-> "ID", values |-> {"a", "b"}],
    [table |-> "Customers", column |-> "Name", values |-> {"a", "b"}],
    [table |-> "Products", column |-> "Name", values |-> {"a"}],
    [table |-> "staging.order_items", column |-> "Qty", values |-> {"b"}] }

QueryFields == { [table |-> s.table, column |-> s.column] : s \in QuerySelections }

\* columnSelections of the canvas tables
QueryViews ==
  { <<>>,
    << [table |-> "Orders", column |-> "ID"], [table |-> "Orders", column |-> "Status"] >>,
    << [table |-> "Orders", column |-> "ID"],
       [table |-> "staging.order_items", column |-> "Qty"] >>,
    << [table |-> "Products", column |-> "Name"], [table |-> "Customers", column |-> "Name"] >>,
    << [table |-> "Orders", column |-> "ID"], [table |-> "Products", column |-> "Name"] >>,
    << [table |-> "staging.order_items", column |-> "Qty"],
       [table |-> "Customers", column |-> "Name"] >>,
    << [table |-> "Customers", column |-> "Name"], [table |-> "Orders", column |-> "ID"],
       [table |-> "Products", column |-> "Name"], [table |-> "Customers", column |-> "Name"] >>,
    << [table |-> "Products", column |-> "Name"],
       [table |-> "staging.order_items", column |-> "Qty"],
       [table |-> "Products", column |-> "ID"] >> }

\* relationship lists of the calls with a limit and of the repeated calls: none, a chain, and the cycle in
\* two orders
RepeatRelationships ==
  LET so == [fromTable |-> "staging.order_items", fromColumn |-> "OrderID",
             toTable |-> "Orders", toColumn |-> "ID"]
      sp == [fromTable |-> "staging.order_items", fromColumn |-> "ProductID",
             toTable |-> "Products", toColumn |-> "ID"]
      oc == [fromTable |-> "Orders", fromColumn |-> "CustomerID",
             toTable |-> "Customers", toColumn |-> "ID"]
      pc == [fromTable |-> "Products", fromColumn |-> "CustomerID",
             toTable |-> "Customers", toColumn |-> "ID"]
  IN { <<>>, <<oc, pc>>, <<so, sp, oc, pc>>, <<pc, oc, sp, so>> }

\* limits passed by a caller
QueryLimits == {1, 50, 10001}

NoResult == [query |-> [shape |-> "none"], columnMapping |-> EmptyMap]

BuildCall(op, targetTable, targetColumn, columnSelections, sels, relationships) ==
  [pc |-> "called", op |-> op, targetTable |-> targetTable,
   targetColumn |-> targetColumn, columnSelections |-> columnSelections,
   selections |-> sels, relationships |-> relationships, result |-> NoResult]

InitQuery ==
  /\ selections = <<>>
  /\ fieldStates = EmptyMap
  /\ history = <<>>
  /\ historyIndex = -1
  /\ requestIdRef = 0
  /\ debounceRef = <<>>
  /\ runs = {}
  /\ hookLog = HookLogInit
  /\ calc = Idle
  /\ graph = Idle
  /\ detect = Idle
  /\ stats = Idle
  /\ tableData = Idle
  /\ \/ \E sels \in { l \in SeqsUpTo(QuerySelections, MaxSelections) : WellFormed(l) },
           rels \in { l \in SeqsUpTo(QueryRelationships, MaxRelationships) :
                        NoRepetition(l) } :
          \/ \E t \in QueryTables :
               build = BuildCall("buildTableQuery", t, Null, <<>>, sels, rels)
          \/ \E f \in QueryFields :
               build = BuildCall("buildPossibleValuesQuery", f.table, f.column, <<>>,
                                 sels, rels)
          \/ \E view \in QueryViews :
               build = BuildCall("buildCompositeTableQuery", Null, Null, view, sels, rels)
     \/ \E f \in QueryFields, op \in {"getFieldValues", "allValuesQuery"} :
          build = BuildCall(op, f.table, f.column, <<>>, <<>>, <<>>)
     \* buildTableQuery with a limit passed by the caller
     \/ \E sels \in { l \in SeqsUpTo(QuerySelections, MaxSelections) : WellFormed(l) },
           rels \in RepeatRelationships, t \in QueryTables, limit \in QueryLimits :
          build = [limit |-> limit]
                    @@ BuildCall("buildTableQuery", t, Null, <<>>, sels, rels)

limitOf_AlwaysDefault(b) == DefaultLimit

\* the default parameter `limit = 1000` (lines 59, 297): the default is
\* taken when the caller passes no limit
limitOf(b) == IF "limit" \in DOMAIN b THEN b.limit ELSE DefaultLimit

\* what the called operation returns
compile(b) ==
  CASE b.op = "buildTableQuery" ->
         [query |-> buildTableQuery(b.targetTable, b.selections, b.relationships,
                                    limitOf(b)),
          columnMapping |-> EmptyMap]
    [] b.op = "buildPossibleValuesQuery" ->
         [query |-> buildPossibleValuesQuery(b.targetTable, b.targetColumn,
                                             b.selections, b.relationships),
          columnMapping |-> EmptyMap]
    [] b.op = "buildCompositeTableQuery" ->
         buildCompositeTableQuery(b.columnSelections, b.selections, b.relationships,
                                  limitOf(b))
    [] b.op = "getFieldValues" ->
         [query |-> getFieldValuesQuery(b.targetTable, b.targetColumn),
          columnMapping |-> EmptyMap]
    [] b.op = "allValuesQuery" ->
         [query |-> allValuesQuery(b.targetTable, b.targetColumn),
          columnMapping |-> EmptyMap]

\* the compilation call returns
BuildReturns ==
  /\ build.pc = "called"
  /\ build' = [build EXCEPT !.pc = "returned", !.result = compile(build)]
  /\ UNCHANGED <<storeVars, hookVars, calc, graph, detect, stats, tableData>>

NextQuery == BuildReturns

SpecQuery == InitQuery /\ [][NextQuery]_vars

(***************************************************************************)
(* QueryBuilder.ts: repeated calls on one QueryBuilder instance            *)
(***************************************************************************)
\* The instance has one field, the stateless RelationshipDetector (line 19).
\* What a call leaves behind in its local aliasCounter is kept in
\* `instance`; every call starts its own counter (lines 86, 180, 337).
counterAfter(b, result) ==
  IF result.query.shape = "select"
  THEN startJoins(result.query.table).aliasCounter + Len(result.query.joins)
  ELSE IF result.query.shape = "wrap"
  THEN startJoins(result.query.inner.table).aliasCounter + Len(result.query.inner.joins)
  ELSE 1

\* the calls made on the instance before: none, or one that joins two tables
EarlierCalls ==
  { <<>>,
    << BuildCall("buildTableQuery", "Orders", Null, <<>>,
                 << [table |-> "Products", column |-> "Name", values |-> {"a"}] >>,
                 << [fromTable |-> "Orders", fromColumn |-> "CustomerID",
                     toTable |-> "Customers", toColumn |-> "ID"],
                    [fromTable |-> "Products", fromColumn |-> "CustomerID",
                     toTable |-> "Customers", toColumn |-> "ID"] >>) >> }

InitRepeat ==
  /\ selections = <<>>
  /\ fieldStates = EmptyMap
  /\ history = <<>>
  /\ historyIndex = -1
  /\ requestIdRef = 0
  /\ debounceRef = <<>>
  /\ runs = {}
  /\ hookLog = HookLogInit
  /\ calc = Idle
  /\ graph = Idle
  /\ detect = Idle
  /\ stats = Idle
  /\ tableData = Idle
  /\ \E sels \in { l \in SeqsUpTo(QuerySelections, MaxSelections) : WellFormed(l) },
        rels \in RepeatRelationships, earlier \in EarlierCalls :
       \E call \in
            { BuildCall("buildTableQuery", t, Null, <<>>, sels, rels) : t \in QueryTables }
            \cup { BuildCall("buildPossibleValuesQuery", f.table, f.column, <<>>,
                             sels, rels) : f \in QueryFields }
            \cup { BuildCall("buildCompositeTableQuery", Null, Null, view, sels, rels) :
                     view \in QueryViews } :
         build = [pc |-> "repeat",
                  pending |-> earlier \o <<call, call>>,
                  instance |-> [aliasCounter |-> 1],
                  results |-> <<>>]

\* the next call on the instance is made and returns
CallOnInstance ==
  /\ build.pc = "repeat"
  /\ build.pending # <<>>
  /\ LET b == build.pending[1]
         result == compile(b)
     IN build' = [build EXCEPT
                    !.pending = Tail(@),
                    !.instance = [aliasCounter |-> counterAfter(b, result)],
                    !.results = Append(@, [call |-> b, result |-> result])]
  /\ UNCHANGED <<storeVars, hookVars, calc, graph, detect, stats, tableData>>

NextRepeat == CallOnInstance

SpecRepeat == InitRepeat /\ [][NextRepeat]_vars

(***************************************************************************)
(* AssociativeEngine.getSelectionStats                                     *)
(***************************************************************************)
\* the row count shown at most (line 347) and the rows asked for (line 340)
RecordCap == 10000
StatsLimit == 10001

Min(a, b) == IF a < b THEN a ELSE b

\* lines 327-329: the number of selected values
RECURSIVE countSelectedValues(_)
countSelectedValues(sels) ==
  IF sels = <<>> THEN 0
  ELSE Cardinality(sels[1].values) + countSelectedValues(Tail(sels))

\* lines 336-341: the query of the table the loop is at
statsQuery(s, i) ==
  IF i > Len(s.tables) THEN [shape |-> "none"]
  ELSE buildTableQuery(s.tables[i], s.selections, s.relationships, StatsLimit)

\* the loop moves on to the next table, or the function returns (line 354)
nextTable(s) ==
  [s EXCEPT !.i = s.i + 1,
            !.query = statsQuery(s, s.i + 1),
            !.pc = IF s.i + 1 > Len(s.tables) THEN "returned" ELSE "awaitQuery"]

\* lines 344-348: the query of the table succeeded with `rows` rows
onQuerySuccess(s, rows) ==
  nextTable([s EXCEPT !.possibleRecords =
                         mapSet(s.possibleRecords, s.tables[s.i], Min(rows, RecordCap)),
                      !.outcomes = Append(@, [ok |-> TRUE, rows |-> rows])])

onQueryFailure_Abort(s) ==
  [s EXCEPT !.pc = "rejected", !.outcomes = Append(@, [ok |-> FALSE, rows |-> 0])]

\* lines 349-351: the query of the table failed
onQueryFailure(s) ==
  nextTable([s EXCEPT !.possibleRecords = mapSet(s.possibleRecords, s.tables[s.i], 0),
                      !.outcomes = Append(@, [ok |-> FALSE, rows |-> 0])])

\* getSelectionStats up to its first await (lines 319-344)
GetSelectionStats ==
  /\ stats.pc = "called"
  /\ stats' = [stats EXCEPT
                 !.totalTables = Len(stats.tables),
                 !.selectedValues = countSelectedValues(stats.selections),
                 !.affectedTables =
                    Cardinality({ stats.selections[k].table : k \in DOMAIN stats.selections }),
                 !.i = 1,
                 !.query = statsQuery(stats, 1),
                 !.pc = IF Len(stats.tables) = 0 THEN "returned" ELSE "awaitQuery"]
  /\ UNCHANGED <<storeVars, hookVars, calc, graph, detect, build, tableData>>

\* executeQuery resolves with `rows` rows for the table the loop is at
StatsQueryResolves(rows) ==
  /\ stats.pc = "awaitQuery"
  /\ stats' = onQuerySuccess(stats, rows)
  /\ UNCHANGED <<storeVars, hookVars, calc, graph, detect, build, tableData>>

\* executeQuery rejects for the table the loop is at
StatsQueryRejects ==
  /\ stats.pc = "awaitQuery"
  /\ stats' = onQueryFailure(stats)
  /\ UNCHANGED <<storeVars, hookVars, calc, graph, detect, build, tableData>>

\* inputs: schemas of at most MaxTables tables, selections on them or on a
\* table outside the schema, row counts around the cap
StatsTableNames == {"Orders", "Customers", "Products"}

StatsSelections ==
  { [table |-> "Orders", column |-> "Status", values |-> {"a"}],
    [table |-> "Customers", column |-> "Name", values |-> {"a", "b"}],
    [table |-> "staging.order_items", column |-> "Qty", values |-> {"b"}] }

StatsRelationships ==
  { <<>>,
    << [fromTable |-> "Orders", fromColumn |-> "CustomerID",
        toTable |-> "Customers", toColumn |-> "ID"],
       [fromTable |-> "Products", fromColumn |-> "CustomerID",
        toTable |-> "Customers", toColumn |-> "ID"] >> }

RowCounts == {0, 1, RecordCap, StatsLimit}

InitStats ==
  /\ selections = <<>>
  /\ fieldStates = EmptyMap
  /\ history = <<>>
  /\ historyIndex = -1
  /\ requestIdRef = 0
  /\ debounceRef = <<>>
  /\ runs = {}
  /\ hookLog = HookLogInit
  /\ calc = Idle
  /\ graph = Idle
  /\ detect = Idle
  /\ build = Idle
  /\ tableData = Idle
  /\ \E tables \in { l \in SeqsUpTo(StatsTableNames, MaxTables) : NoRepetition(l) },
        sels \in { l \in SeqsUpTo(StatsSelections, MaxSelections) : WellFormed(l) },
        rels \in StatsRelationships :
       stats = [pc |-> "called", tables |-> tables, selections |-> sels,
                relationships |-> rels, i |-> 0, query |-> [shape |-> "none"],
                totalTables |-> 0, affectedTables |-> 0, selectedValues |-> 0,
                possibleRecords |-> EmptyMap, outcomes |-> <<>>]

StatsResolves == \E rows \in RowCounts : StatsQueryResolves(rows)

NextStats ==
  \/ GetSelectionStats
  \/ StatsResolves
  \/ StatsQueryRejects

SpecStats == InitStats /\ [][NextStats]_vars

(***************************************************************************)
(* useTableData.ts and useCompositeTableData.ts: one mounted hook that     *)
(* re-fetches its rows whenever the store's selections change              *)
(***************************************************************************)
\* the rows executeQuery returns for a statement: the database does not
\* change while the hook is mounted, so rows are identified by the statement
\* that produced them
resultOf(query) == [of |-> query]

\* the initial `rows: []`, produced by no statement
NoRows == [of |-> [shape |-> "none"]]

\* the state the hooks start with and reset to when they show nothing
EmptyData == [rows |-> NoRows, isLoading |-> FALSE, error |-> Null]

\* the guard of fetchData: a table name (useTableData.ts:28), at least one
\* column selection (useCompositeTableData.ts:38)
hasTarget(td) ==
  IF td.hook = "useTableData" THEN td.tableName # Null
  ELSE Len(td.columnSelections) # 0

\* the statement fetchData sends for the selections `sels`:
\* engine.getFilteredTableData compiles it with buildTableQuery
\* (RelationshipDetector.ts:272), the composite hook with
\* buildCompositeTableQuery (useCompositeTableData.ts:49); both hooks pass
\* their default limit of 1000
queryOf(td, sels) ==
  IF td.hook = "useTableData"
  THEN buildTableQuery(td.tableName, sels, td.relationships, DefaultLimit)
  ELSE buildCompositeTableQuery(td.columnSelections, sels, td.relationships,
                                DefaultLimit).query

\* "Skip if query hasn't changed" (useCompositeTableData.ts:56-59); the
\* single-table hook has no such test
skipsQuery(td, query) ==
  td.hook = "useCompositeTableData" /\ query = td.prevQueryRef

\* the effect runs fetchData up to its await: fetchData is rebuilt, and the
\* effect re-run, after every render in which `selections` is a new array
FetchData ==
  /\ tableData.pc = "mounted"
  /\ ~tableData.rendered
  /\ tableData.issued < MaxRequests
  /\ IF ~hasTarget(tableData)
     THEN tableData' = [tableData EXCEPT !.rendered = TRUE, !.data = EmptyData]
     ELSE LET query == queryOf(tableData, selections)
          IN IF skipsQuery(tableData, query)
             THEN tableData' = [tableData EXCEPT !.rendered = TRUE]
             ELSE tableData' =
                    [tableData EXCEPT
                       !.rendered = TRUE,
                       !.prevQueryRef = IF tableData.hook = "useCompositeTableData"
                                        THEN query ELSE @,
                       !.data = [@ EXCEPT !.isLoading = TRUE, !.error = Null],
                       !.issued = @ + 1,
                       !.pending = @ \cup {[id |-> tableData.issued + 1,
                                            query |-> query]}]
  /\ UNCHANGED <<storeVars, hookVars, calc, graph, detect, build, stats>>

\* executeQuery resolves for one of the calls in flight: its continuation
\* stores the rows (useTableData.ts:44-49, useCompositeTableData.ts:73-79)
FetchResolves(fetch) ==
  /\ tableData.pc = "mounted"
  /\ fetch \in tableData.pending
  /\ tableData' = [tableData EXCEPT
                     !.pending = @ \ {fetch},
                     !.data = [rows |-> resultOf(fetch.query),
                               isLoading |-> FALSE, error |-> Null]]
  /\ UNCHANGED <<storeVars, hookVars, calc, graph, detect, build, stats>>

\* executeQuery rejects for one of the calls in flight: the rows stay, the
\* error is set (useTableData.ts:50-56, useCompositeTableData.ts:80-86)
FetchRejects(fetch) ==
  /\ tableData.pc = "mounted"
  /\ fetch \in tableData.pending
  /\ tableData' = [tableData EXCEPT
                     !.pending = @ \ {fetch},
                     !.rejected = @ \cup {fetch.id},
                     !.data = [@ EXCEPT !.isLoading = FALSE,
                                        !.error = "Failed to fetch data"]]
  /\ UNCHANGED <<storeVars, hookVars, calc, graph, detect, build, stats>>

\* a store action replaces `selections`: the component renders again and
\* its effect is due
rerender ==
  tableData' = [tableData EXCEPT !.rendered = FALSE]

\* the cells the user clicks while the hook is mounted: one of each table
TableDataCells ==
  { [table |-> "Orders", column |-> "Status", value |-> "a"],
    [table |-> "Customers", column |-> "Name", value |-> "b"] }

TableDataSelects ==
  \E cell \in TableDataCells, multiSelect \in BOOLEAN :
    /\ tableData.pc = "mounted"
    /\ selectValue(cell, multiSelect)
    /\ rerender
    /\ UNCHANGED <<hookVars, calc, graph, detect, build, stats>>

TableDataClears ==
  /\ tableData.pc = "mounted"
  /\ clearAllSelections
  /\ rerender
  /\ UNCHANGED <<hookVars, calc, graph, detect, build, stats>>

TableDataGoesBack ==
  /\ tableData.pc = "mounted"
  /\ goBack
  /\ rerender
  /\ UNCHANGED <<hookVars, calc, graph, detect, build, stats>>

\* what the mounted hooks show: no table, a table of the schema, no column,
\* columns of two related tables
TableDataTargets ==
  { [hook |-> "useTableData", tableName |-> t, columnSelections |-> <<>>] :
      t \in {Null, "Orders", "Customers"} } \cup
  { [hook |-> "useCompositeTableData", tableName |-> Null, columnSelections |-> cs] :
      cs \in { <<>>, << [table |-> "Orders", column |-> "ID"],
                        [table |-> "Customers", column |-> "Name"] >> } }

TableDataRelationships ==
  << [fromTable |-> "Orders", fromColumn |-> "CustomerID",
      toTable |-> "Customers", toColumn |-> "ID"] >>

InitTableData ==
  /\ selections = <<>>
  /\ fieldStates = EmptyMap
  /\ history = <<>>
  /\ historyIndex = -1
  /\ requestIdRef = 0
  /\ debounceRef = <<>>
  /\ runs = {}
  /\ hookLog = HookLogInit
  /\ calc = Idle
  /\ graph = Idle
  /\ detect = Idle
  /\ build = Idle
  /\ stats = Idle
  /\ \E target \in TableDataTargets :
       tableData = [pc |-> "mounted", hook |-> target.hook,
                    tableName |-> target.tableName,
                    columnSelections |-> target.columnSelections,
                    relationships |-> TableDataRelationships,
                    rendered |-> FALSE, prevQueryRef |-> NoRows.of,
                    data |-> EmptyData, issued |-> 0, pending |-> {},
                    rejected |-> {}]

TableDataResolves == \E fetch \in tableData.pending : FetchResolves(fetch)

TableDataRejects == \E fetch \in tableData.pending : FetchRejects(fetch)

NextTableData ==
  \/ TableDataSelects
  \/ TableDataClears
  \/ TableDataGoesBack
  \/ FetchData
  \/ TableDataResolves
  \/ TableDataRejects

SpecTableData == InitTableData /\ [][NextTableData]_vars

(***************************************************************************)
(* Claims about the selection store (SpecStore)                            *)
(***************************************************************************)
isSelected(f, v) ==
  LET sel == findIndex(selections, f.table, f.column)
  IN sel > 0 /\ v \in selections[sel].values

hasFieldState(f) == createFieldKey(f.table, f.column) \in DOMAIN fieldStates

\* C2: getValueState fails open. A value that is not selected and whose field
\* has no computed FieldState is 'possible', also while selections exist;
\* 'excluded' is returned only for a field that has a computed FieldState.
C2_FailOpen ==
  \A f \in SchemaFields, v \in DuckDBValue :
    /\ (~isSelected(f, v) /\ ~hasFieldState(f))
         => getValueState(f.table, f.column, v) = "possible"
    /\ getValueState(f.table, f.column, v) = "excluded" => hasFieldState(f)

\* C4: the current selections hold at most one FieldSelection per
\* (table, column) pair and no FieldSelection with an empty value set.
C4_SelectionsWellFormed ==
  /\ \A i, j \in DOMAIN selections :
       (selections[i].table = selections[j].table
          /\ selections[i].column = selections[j].column) => i = j
  /\ \A i \in DOMAIN selections : selections[i].values # {}

\* C4 witness: the last value of a field was deselected: the snapshot before
\* the click holds the field, the one after it does not
C4_Witness ==
  /\ Len(history) = 2
  /\ historyIndex = 1
  /\ Len(history[1].selections) = 1
  /\ history[2].selections = <<>>
  /\ selections = <<>>

(***************************************************************************)
(* Claims about the propagation hook (Spec)                                *)
(***************************************************************************)
\* C3: request ids are strictly increasing in start order, and a run writes
\* field states only if no later run has been started since it started:
\* the last writer is always the latest run started at the time of its write.
C3_StaleDiscarded ==
  /\ hookLog.writer = hookLog.at
  /\ \A r \in runs : r.requestId <= hookLog.started
  /\ \A r1, r2 \in runs : r1.requestId = r2.requestId => r1 = r2
  /\ debounceRef # <<>> => debounceRef[1].requestId > hookLog.started

\* C3 witness: a superseded run resolved and was dropped, a later run wrote
C3_Witness ==
  /\ hookLog.discarded >= 1
  /\ hookLog.writer = 2
  /\ fieldStates # EmptyMap

(***************************************************************************)
(* Claims about StateCalculator (SpecCalc)                                 *)
(***************************************************************************)
\* the values selected on the field of call i (a field that holds a selection)
selectedValuesOf(i) ==
  calc.selections[findIndex(calc.selections, calc.fields[i].table,
                            calc.fields[i].column)].values

\* C1: a query failure is local to one field. Whichever query of field F
\* rejects, the call does not reject; it resolves with one FieldState per
\* requested field, and F's FieldState is left unclassified.
C1_FailureLocal ==
  /\ calc.pc # "rejected"
  /\ (calc.pc = "resolved" /\ Len(calc.selections) > 0) =>
       /\ Len(calc.result) = Len(calc.fields)
       /\ \A i \in DOMAIN calc.procs :
            calc.procs[i].failed => calc.result[i].valueStates = EmptyMap

Neighbours(S, rels) ==
  { rels[i].toTable : i \in { j \in DOMAIN rels : rels[j].fromTable \in S } } \cup
  { rels[i].fromTable : i \in { j \in DOMAIN rels : rels[j].toTable \in S } }

\* tables at most n undirected steps away from x
RECURSIVE Within(_, _, _)
Within(x, rels, n) ==
  IF n = 0 THEN {x}
  ELSE LET W == Within(x, rels, n - 1) IN W \cup Neighbours(W, rels)

\* every reachable table is reachable in at most Len(rels) steps
Reachable(x, rels) == Within(x, rels, Len(rels))

\* the least number of edges of a walk from x to y (y reachable from x)
Distance(x, y, rels) ==
  CHOOSE n \in 0..Len(rels) :
    /\ y \in Within(x, rels, n)
    /\ \A m \in 0..(n - 1) : y \notin Within(x, rels, m)

\* C5: findPath(x, x, R) = [], findPath(x, y, R) = null iff y is not in
\* findConnectedTables(x, R), and findConnectedTables(x, R) is the set of
\* tables reachable from x over the undirected view of R, x included.
C5_PathIffConnected ==
  graph.pc = "returned" =>
    /\ graph.fromTable = graph.toTable => graph.path = [found |-> TRUE, path |-> <<>>]
    /\ ~graph.path.found <=> graph.toTable \notin graph.connected
    /\ graph.connected = Reachable(graph.fromTable, graph.relationships)

\* C5 witness: three relationships, the target three steps away and found
C5_Witness ==
  /\ graph.pc = "returned"
  /\ Len(graph.relationships) = 3
  /\ graph.path.found
  /\ Len(graph.path.path) = 3
  /\ Cardinality(graph.connected) = 4

\* C6: a returned path is a shortest one: its edge count is the least number
\* of edges of any walk from `from` to `to` over the undirected view of R.
C6_ShortestPath ==
  (graph.pc = "returned" /\ graph.path.found) =>
    Len(graph.path.path) =
      Distance(graph.fromTable, graph.toTable, graph.relationships)

\* C6 witness: a direct relationship is returned although the list puts a
\* two-step detour before it
C6_Witness ==
  /\ graph.pc = "returned"
  /\ Len(graph.relationships) = 3
  /\ graph.path.found
  /\ Len(graph.path.path) = 1
  /\ graph.path.path[1] = graph.relationships[3]
  /\ graph.toTable \in Within(graph.fromTable, SubSeq(graph.relationships, 1, 2), 2)
  /\ graph.toTable \notin Within(graph.fromTable, SubSeq(graph.relationships, 1, 2), 1)

(***************************************************************************)
(* Claims about detectRelationships (SpecDetect)                           *)
(***************************************************************************)
\* the unordered pair of (table, column) endpoints of a relationship
Endpoints(r) == { <<r.fromTable, r.fromColumn>>, <<r.toTable, r.toColumn>> }

\* C7: the list returned by detectRelationships holds no two relationships
\* with the same unordered pair of (table, column) endpoints.
C7_NoDuplicateRelationships ==
  detect.pc = "returned" =>
    \A i, j \in DOMAIN detect.relationships :
      Endpoints(detect.relationships[i]) = Endpoints(detect.relationships[j]) => i = j

\* C7 witness: two columns of the schema detect the same pair of endpoints in
\* opposite directions, and the returned list holds that pair once
C7_Witness ==
  /\ detect.pc = "returned"
  /\ Len(detect.relationships) = 1
  /\ \E i, k \in DOMAIN detect.tables :
       \E j \in DOMAIN detect.tables[i].columns, l \in DOMAIN detect.tables[k].columns :
         LET d1 == detectColumnRelationship(detect.tables[i].name,
                     detect.tables[i].columns[j], detect.tables,
                     tableMapOf(detect.tables))
             d2 == detectColumnRelationship(detect.tables[k].name,
                     detect.tables[k].columns[l], detect.tables,
                     tableMapOf(detect.tables))
         IN /\ d1 # NoRelationship
            /\ d2 # NoRelationship
            /\ reversedEndpoints(d1[1], d2[1])

(***************************************************************************)
(* Claims about QueryBuilder (SpecQuery)                                   *)
(***************************************************************************)
\* the SELECT statement a result runs against the tables: the wrapped table
\* query of a single-table composite, the query itself otherwise
statementOf(result) ==
  IF result.query.shape = "wrap" THEN result.query.inner ELSE result.query

isBuilderCall ==
  /\ build.pc = "returned"
  /\ build.op \in {"buildTableQuery", "buildPossibleValuesQuery",
                   "buildCompositeTableQuery"}
  /\ build.result.query.shape \in {"select", "wrap"}

joinedTablesOf(q) == { q.joins[i].table : i \in DOMAIN q.joins }

\* the table an alias of a statement stands for
tableOfAlias(q, alias) ==
  IF alias = "t" \/ alias = q.from THEN q.table
  ELSE IF \E i \in DOMAIN q.joins : q.joins[i].alias = alias
  THEN q.joins[CHOOSE i \in DOMAIN q.joins : q.joins[i].alias = alias].table
  ELSE "undefined"

\* the positions of the conditions of a statement's WHERE clause
conditionPositions(q) ==
  { <<i, j>> \in (DOMAIN q.where) \X (1..MaxSelections) : j \in DOMAIN q.where[i].conditions }

\* the conditions of a statement as (table, column, value list) triples
conditionsOf(q) ==
  { << tableOfAlias(q, q.where[p[1]].alias),
       q.where[p[1]].conditions[p[2]].column,
       q.where[p[1]].conditions[p[2]].values >> : p \in conditionPositions(q) }

conditionOfSelection(s) == << s.table, s.column, { "'" \o v \o "'" : v \in s.values } >>

\* the selections a call may filter by: all of them, and for the
\* possible-values query all but those on the queried field
filtersOf(b) ==
  { s \in Range(b.selections) :
      ~(b.op = "buildPossibleValuesQuery"
          /\ s.table = b.targetTable /\ s.column = b.targetColumn) }

\* C11: the possible-values query carries no condition on the queried field,
\* and when every selection is on that field it is the unfiltered
\* SELECT DISTINCT of the column, without JOIN and without WHERE.
C11_NoSelfFilter ==
  (build.pc = "returned" /\ build.op = "buildPossibleValuesQuery") =>
    LET q == build.result.query
    IN /\ \A c \in conditionsOf(q) :
            ~(c[1] = build.targetTable /\ c[2] = build.targetColumn)
       /\ (\A s \in Range(build.selections) :
             s.table = build.targetTable /\ s.column = build.targetColumn)
          => /\ q.joins = <<>> /\ q.where = <<>> /\ q.distinct /\ q.baseAlias = ""
             /\ q.projection = << [alias |-> "", column |-> build.targetColumn,
                                   as |-> ""] >>

\* C11 witness: the queried field and another field of its table are selected;
\* the query filters by the other field only
C11_Witness ==
  /\ build.pc = "returned" /\ build.op = "buildPossibleValuesQuery"
  /\ Len(build.selections) = 2
  /\ \A s \in Range(build.selections) : s.table = build.targetTable
  /\ \E s \in Range(build.selections) : s.column = build.targetColumn
  /\ Cardinality(conditionsOf(build.result.query)) = 1

\* C12: buildTableQuery and buildPossibleValuesQuery return a query whose
\* WHERE conditions are exactly those of the selections on the target table
\* or on a table reachable from it; a selection on an unreachable table adds
\* no JOIN and no condition and removes no other condition.
C12_DegradesByOmission ==
  (build.pc = "returned"
     /\ build.op \in {"buildTableQuery", "buildPossibleValuesQuery"}) =>
    LET q == build.result.query
        reach == Reachable(build.targetTable, build.relationships)
        kept == { s \in filtersOf(build) : s.table \in reach }
    IN /\ q.shape = "select"
       /\ conditionsOf(q) = { conditionOfSelection(s) : s \in kept }
       /\ Cardinality(conditionPositions(q)) = Cardinality(kept)
       /\ joinedTablesOf(q) \subseteq reach \ {build.targetTable}
       /\ (\A s \in kept : s.table = build.targetTable) => q.joins = <<>>
       /\ \A i \in DOMAIN q.joins : q.joins[i].onAlias # "undefined"

\* C12 witness: a selection on an unreachable table comes first, a selection
\* on a joined table keeps its condition
C12_Witness ==
  /\ build.pc = "returned" /\ build.op = "buildTableQuery"
  /\ Len(build.selections) = 2
  /\ build.selections[1].table
       \notin Reachable(build.targetTable, build.relationships)
  /\ build.selections[2].table \in joinedTablesOf(build.result.query)
  /\ Cardinality(conditionsOf(build.result.query)) = 1

\* C13: no table is joined twice, the base table is never joined, the
\* aliases are pairwise distinct, the base table's alias is 't' and the k-th
\* JOIN carries alias 't<k>'.
C13_JoinsAndAliases ==
  isBuilderCall =>
    LET q == statementOf(build.result)
    IN /\ \A i, j \in DOMAIN q.joins : q.joins[i].table = q.joins[j].table => i = j
       /\ q.table \notin joinedTablesOf(q)
       /\ \A k \in DOMAIN q.joins : q.joins[k].alias = "t" \o ToString(k)
       /\ q.baseAlias \in {"", "t"}
       /\ q.joins # <<>> => q.baseAlias = "t"

\* C13 witness: a composite query that joins all three other tables, for
\* display and for a filter
C13_Witness ==
  /\ isBuilderCall /\ build.op = "buildCompositeTableQuery"
  /\ build.result.query.shape = "select"
  /\ Len(build.result.query.joins) = 3
  /\ \E i \in DOMAIN build.result.query.joins : build.result.query.joins[i].kind = "JOIN"

\* the multi-table composite calls that returned a query
isMultiTableComposite ==
  /\ build.pc = "returned" /\ build.op = "buildCompositeTableQuery"
  /\ build.result.query.shape = "select"

\* the tables joined for the display columns of a composite call
displayJoinedOf(b) ==
  displayJoins(getTablesFromSelections(b.columnSelections), 1,
               getPrimaryTable(b.columnSelections), b.relationships,
               startJoins(getPrimaryTable(b.columnSelections)), {}).js.joinedTables

\* the relationships that connect tables of S
within(relationships, S) ==
  SelectSeq(relationships, LAMBDA r : r.fromTable \in S /\ r.toTable \in S)

\* table f has a shortest path from table p that runs through tables of S only
shortestThrough(p, f, relationships, S) ==
  /\ f \in Reachable(p, within(relationships, S \cup {f}))
  /\ Distance(p, f, within(relationships, S \cup {f})) = Distance(p, f, relationships)

\* C14: when every selection table that is not joined for display has a
\* shortest path from the primary table through display-joined tables only,
\* the filter paths use those tables: the query joins no table that is
\* neither joined for display nor carries a selection.
C14_PrefersJoinedTables ==
  isMultiTableComposite =>
    LET primary == getPrimaryTable(build.columnSelections)
        display == displayJoinedOf(build)
        filterTables == { s.table : s \in Range(build.selections) } \ display
    IN (\A f \in filterTables :
          shortestThrough(primary, f, build.relationships, display))
       => joinedTablesOf(build.result.query) \cup {primary} \subseteq display \cup filterTables

\* the tables of the projected columns
projectedTablesOf(q) ==
  { tableOfAlias(q, q.projection[i].alias) : i \in DOMAIN q.projection }

\* C15 as claimed: every table joined to reach a projected column is LEFT
\* JOINed, and every joined table that carries a selection and has no
\* projected column is inner JOINed.
C15_JoinKinds ==
  isMultiTableComposite =>
    LET q == build.result.query
    IN \A i \in DOMAIN q.joins :
         /\ q.joins[i].table \in displayJoinedOf(build) => q.joins[i].kind = "LEFT JOIN"
         /\ (q.joins[i].table \in { s.table : s \in Range(build.selections) }
               /\ q.joins[i].table \notin projectedTablesOf(q))
            => q.joins[i].kind = "JOIN"

\* C15 amended: a table is LEFT JOINed exactly when it is joined to reach a
\* projected column; a table joined only to reach a selection is inner JOINed.
C15_JoinKindsByPurpose ==
  isMultiTableComposite =>
    LET q == build.result.query
    IN \A i \in DOMAIN q.joins :
         q.joins[i].kind =
           IF q.joins[i].table \in displayJoinedOf(build) THEN "LEFT JOIN" ELSE "JOIN"

\* C15 witness: an intermediate table on the way to a projected column carries
\* a selection and is LEFT JOINed; another selection's table is inner JOINed
C15_Witness ==
  /\ isMultiTableComposite
  /\ \E i, j \in DOMAIN build.result.query.joins :
       LET q == build.result.query
       IN /\ q.joins[i].kind = "LEFT JOIN"
          /\ q.joins[i].table \in { s.table : s \in Range(build.selections) }
          /\ q.joins[i].table \notin projectedTablesOf(q)
          /\ q.joins[j].kind = "JOIN"

\* C16: every query of the three builders that reads a table carries a LIMIT
\* clause, and every one with a JOIN selects DISTINCT.
C16_LimitAndDistinct ==
  isBuilderCall =>
    LET q == statementOf(build.result)
    IN /\ q.limit.present
       /\ q.joins # <<>> => q.distinct

\* the reference the engine is to write for a table name
ExpectedTableRef(name) ==
  IF includes(name, ".")
  THEN "loaded_db.\"" \o SubSeq(name, 1, indexOf(name, ".", 1) - 1) \o "\".\""
         \o SubSeq(name, indexOf(name, ".", 1) + 1, Len(name)) \o "\""
  ELSE "loaded_db.\"" \o name \o "\""

\* C17: every SQL text the engine produces refers to a table 'schema.table'
\* as loaded_db."schema"."table" and to an unqualified one as loaded_db."table".
C17_QualifiedReferences ==
  (build.pc = "returned" /\ build.result.query.shape \in {"select", "wrap"}) =>
    LET q == statementOf(build.result)
    IN /\ q.from = ExpectedTableRef(q.table)
       /\ \A i \in DOMAIN q.joins : q.joins[i].ref = ExpectedTableRef(q.joins[i].table)

\* a requested column has an entry in the column mapping
hasMappingEntry(result, cs) ==
  \E name \in DOMAIN result.columnMapping :
    /\ result.columnMapping[name] = [table |-> cs.table, column |-> cs.column]
    /\ name \in {cs.column, cs.table \o "." \o cs.column}

\* C18: buildCompositeTableQuery returns for every input; a requested column
\* is mapped exactly when its table is the primary table or reachable from
\* it, exactly the mapped columns are projected, and an empty column list
\* gives 'SELECT 1 WHERE FALSE' with an empty mapping.
C18_CompositeOmitsUnreachable ==
  (build.pc = "returned" /\ build.op = "buildCompositeTableQuery") =>
    LET r == build.result
        cols == build.columnSelections
    IN IF cols = <<>>
       THEN r.query.shape = "empty" /\ DOMAIN r.columnMapping = {}
       ELSE LET reach == Reachable(cols[1].table, build.relationships)
                kept == SelectSeq(cols, LAMBDA cs : cs.table \in reach)
            IN /\ r.query.shape \in {"select", "wrap"}
               /\ \A cs \in Range(cols) : hasMappingEntry(r, cs) <=> cs.table \in reach
               /\ Cardinality(DOMAIN r.columnMapping) = Cardinality(Range(kept))
               /\ [ i \in DOMAIN r.query.projection |-> r.query.projection[i].column ]
                    = [ i \in DOMAIN kept |-> kept[i].column ]
               /\ \A i \in DOMAIN statementOf(r).joins :
                    statementOf(r).joins[i].onAlias # "undefined"

\* C18 witness: of three requested tables one is unreachable; its column is
\* omitted, the others are projected, and a selection still filters
C18_Witness ==
  /\ isMultiTableComposite
  /\ Cardinality({ cs.table : cs \in Range(build.columnSelections) }) = 3
  /\ \E cs \in Range(build.columnSelections) : ~hasMappingEntry(build.result, cs)
  /\ Len(build.result.query.joins) = 1
  /\ build.result.query.where # <<>>

(***************************************************************************)
(* Claims about selective computation and statistics                       *)
(***************************************************************************)
\* the fields a call of calculateFieldStates is to return a FieldState for
expectedFields(c) ==
  IF c.targetFields.given
  THEN { f \in SchemaFields :
           \/ f \in Range(c.targetFields.fields)
           \/ findIndex(c.selections, f.table, f.column) > 0 }
  ELSE SchemaFields

\* C19: a call with selections that has settled has returned exactly one
\* FieldState for each field that is in the supplied allow-list or carries a
\* selection, and for every field of the schema when no allow-list is supplied.
C19_SelectiveComputation ==
  (Len(calc.selections) > 0 /\ calc.pc \in {"resolved", "rejected"}) =>
    /\ calc.pc = "resolved"
    /\ { [table |-> calc.result[i].table, column |-> calc.result[i].column] :
           i \in DOMAIN calc.result } = expectedFields(calc)
    /\ Len(calc.result) = Cardinality(expectedFields(calc))

\* C20: at every point of the pass, each table the loop has dealt with has
\* its count recorded, min(rows, 10000) if its query succeeded and 0 if it
\* failed; the pass is never aborted, and when it returns every table of the
\* schema has a count.
C20_StatsPerTable ==
  /\ stats.pc # "rejected"
  /\ stats.pc \in {"awaitQuery", "returned"} =>
       /\ \A k \in DOMAIN stats.outcomes :
            /\ stats.tables[k] \in DOMAIN stats.possibleRecords
            /\ stats.possibleRecords[stats.tables[k]] =
                 IF stats.outcomes[k].ok
                 THEN (IF stats.outcomes[k].rows < 10000
                       THEN stats.outcomes[k].rows ELSE 10000)
                 ELSE 0
       /\ DOMAIN stats.possibleRecords = { stats.tables[k] : k \in DOMAIN stats.outcomes }
       /\ stats.pc = "returned" => Len(stats.outcomes) = Len(stats.tables)

\* C20 witness: the first table's query failed, the second returned 10001
\* rows, and the pass returned with 0 and 10000
C20_Witness ==
  /\ stats.pc = "returned"
  /\ Len(stats.tables) >= 2
  /\ ~stats.outcomes[1].ok
  /\ stats.outcomes[2].ok /\ stats.outcomes[2].rows = 10001
  /\ stats.possibleRecords[stats.tables[1]] = 0
  /\ stats.possibleRecords[stats.tables[2]] = 10000

(***************************************************************************)
(* Claims about the empty selection list (SpecCalc)                        *)
(***************************************************************************)
\* C21: with an empty selection list no query is ever issued, and once
\* calculateFieldStates or propagateSelection has run it has returned an
\* empty result.
C21_NoSelectionsNoQueries ==
  Len(calc.selections) = 0 =>
    /\ calc.queries = 0
    /\ calc.procs = <<>>
    /\ calc.pc \in {"called", "propagating", "resolved"}
    /\ calc.pc = "resolved" => calc.result = <<>>

\* C21 witness: calculateFieldStates, called with an allow-list and without
\* selections, has returned
C21_Witness ==
  /\ calc.pc = "resolved"
  /\ calc.entry = "calculateFieldStates"
  /\ calc.targetFields.given /\ Len(calc.targetFields.fields) > 0
  /\ Len(calc.selections) = 0

(***************************************************************************)
(* Claims about the confidence of a relationship (SpecConfidence)          *)
(***************************************************************************)
\* the type families, as sets of the column types
IntegerLike == {"INTEGER", "bigint", "TINYINT"}
StringLike == {"VARCHAR", "text"}

sameFamily(type1, type2) ==
  \/ type1 \in IntegerLike /\ type2 \in IntegerLike
  \/ type1 \in StringLike /\ type2 \in StringLike

\* the same name in upper-case or lower-case letters
sameTypeName(type1, type2) ==
  \/ type1 = type2
  \/ {type1, type2} = {"DATE", "date"}

namedId(col) == col.name \in {"ID", "id"}

C24_NoSelectionsQuery ==
  (build.pc = "returned" /\ build.op = "buildTableQuery" /\ build.selections = <<>>) =>
    build.result.query =
      [shape |-> "select", distinct |-> FALSE,
       projection |-> << [alias |-> "", column |-> "*", as |-> ""] >>,
       table |-> build.targetTable, from |-> ExpectedTableRef(build.targetTable),
       baseAlias |-> "", joins |-> <<>>, where |-> <<>>,
       limit |-> [present |-> TRUE,
                  value |-> IF "limit" \in DOMAIN build THEN build.limit ELSE 1000]]

\* C24 witness: a schema-qualified table, relationships that touch it, limit 50
C24_Witness ==
  /\ build.pc = "returned" /\ build.op = "buildTableQuery"
  /\ build.selections = <<>>
  /\ build.targetTable = "staging.order_items"
  /\ Len(build.relationships) = 4
  /\ "limit" \in DOMAIN build /\ build.limit = 50
  /\ build.result.query.limit.value = 50

(***************************************************************************)
(* Claims about path preference (SpecPreferred)                            *)
(***************************************************************************)
\* C25: findPreferredPath finds a path exactly when findPath finds one on the
\* list as given, and its path has the edge count of a shortest path.
C25_PreferenceBreaksTiesOnly ==
  graph.pc = "returned" =>
    /\ graph.preferred.found <=> graph.path.found
    /\ graph.preferred.found =>
         /\ Len(graph.preferred.path) = Len(graph.path.path)
         /\ Len(graph.preferred.path) =
              Distance(graph.fromTable, graph.toTable, graph.relationships)

\* C25 witness: the preferred path is another path than that of findPath,
\* two edges long like it
C25_Witness ==
  /\ graph.pc = "returned"
  /\ graph.preferred.found
  /\ Len(graph.preferred.path) = 2
  /\ Len(graph.path.path) = 2
  /\ graph.preferred.path # graph.path.path
  /\ graph.preferredTables # {}

(***************************************************************************)
(* Claims about the shape of a path (SpecGraph)                            *)
(***************************************************************************)
\* the table at the other end of an edge, "<none>" if the edge does not
\* touch the table
otherEnd(rel, table) ==
  IF rel.fromTable = table THEN rel.toTable
  ELSE IF rel.toTable = table THEN rel.fromTable
  ELSE "<none>"

\* the tables a path visits when walked from `table`, the start included
RECURSIVE walk(_, _)
walk(path, table) ==
  IF path = <<>> THEN << table >>
  ELSE << table >> \o walk(Tail(path), otherEnd(path[1], table))

\* C26: a non-empty path returned by findPath consists of members of R, starts
\* at `from`, continues each edge at the table the edge before it led to,
\* ends at `to`, and visits no table twice.
C26_SimpleWalk ==
  (graph.pc = "returned" /\ graph.path.found /\ graph.path.path # <<>>) =>
    LET path == graph.path.path
        visitedTables == walk(path, graph.fromTable)
    IN /\ \A i \in DOMAIN path : path[i] \in Range(graph.relationships)
       /\ \A i \in DOMAIN visitedTables : visitedTables[i] # "<none>"
       /\ visitedTables[Len(visitedTables)] = graph.toTable
       /\ \A i, j \in DOMAIN visitedTables : visitedTables[i] = visitedTables[j] => i = j

\* C26 witness: a path of three edges, one of them walked against its
\* direction, from a list that also holds an edge off the path
C26_Witness ==
  /\ graph.pc = "returned" /\ graph.path.found
  /\ Len(graph.path.path) = 3
  /\ Len(graph.relationships) = 4
  /\ \E i \in DOMAIN graph.path.path :
       graph.path.path[i].toTable = walk(graph.path.path, graph.fromTable)[i]
  /\ \E r \in Range(graph.relationships) : r \notin Range(graph.path.path)

(***************************************************************************)
(* Claims about the aliases of a query (SpecQuery)                         *)
(***************************************************************************)
\* the aliases the FROM clause and the first k JOINs of a statement define;
\* a FROM clause without alias defines the table reference itself
definedAliases(q, k) ==
  { IF q.baseAlias = "" THEN q.from ELSE q.baseAlias }
    \cup { q.joins[i].alias : i \in 1..k }

\* join j follows relationship r from table `onTable`
alongEdge(j, onTable, r) ==
  \/ /\ r.fromTable = onTable /\ r.fromColumn = j.joinCol
     /\ r.toTable = j.table /\ r.toColumn = j.targetCol
  \/ /\ r.toTable = onTable /\ r.toColumn = j.joinCol
     /\ r.fromTable = j.table /\ r.fromColumn = j.targetCol

\* C27: every JOIN defines a new alias and its ON condition equates a column
\* of that alias with a column of an alias defined before it, the two columns
\* being the two ends of one relationship between the two tables; every alias
\* of a WHERE condition is defined by the FROM clause or a JOIN.
C27_AliasesWellFormed ==
  isBuilderCall =>
    LET q == statementOf(build.result)
    IN /\ \A k \in DOMAIN q.joins :
            /\ q.joins[k].alias \notin definedAliases(q, k - 1)
            /\ q.joins[k].onAlias \in definedAliases(q, k - 1)
            /\ \E r \in Range(build.relationships) :
                 alongEdge(q.joins[k], tableOfAlias(q, q.joins[k].onAlias), r)
       /\ \A i \in DOMAIN q.where : q.where[i].alias \in definedAliases(q, Len(q.joins))

\* C27 witness: a JOIN onto a joined table, not the base table, walked
\* against the direction of its relationship, and a condition on its alias
C27_Witness ==
  /\ isBuilderCall
  /\ \E k \in DOMAIN statementOf(build.result).joins :
       LET q == statementOf(build.result)
       IN /\ q.joins[k].onAlias # "t"
          /\ \E r \in Range(build.relationships) :
               r.toTable = tableOfAlias(q, q.joins[k].onAlias) /\ r.fromTable = q.joins[k].table
          /\ \E i \in DOMAIN q.where : q.where[i].alias = q.joins[k].alias

(***************************************************************************)
(* Claims about the history cursor (SpecStore)                             *)
(***************************************************************************)
\* C28: whenever the history is not empty, historyIndex is the index of one
\* of its snapshots and the store's selections are those of that snapshot.
C28_CursorConsistent ==
  history # <<>> =>
    /\ 0 <= historyIndex /\ historyIndex < Len(history)
    /\ selections = history[historyIndex + 1].selections

settled ==
  /\ tableData.pc = "mounted"
  /\ hasTarget(tableData)
  /\ tableData.rendered
  /\ tableData.pending = {}
  /\ tableData.issued \notin tableData.rejected

\* C30: once every issued query has resolved, the rows held by the hook are
\* the result of the query compiled from the store's most recent selections,
\* in whatever order the queries resolved.
C30_ConvergesToLatest ==
  settled => tableData.data.rows = resultOf(queryOf(tableData, selections))

====
